---- MODULE Spec2Model ----
(***************************************************************************)
(* Constraint-system core of the STARK verifier (verify/src/constraint).   *)
(*                                                                         *)
(* The generic fields are instantiated with F = GF(5) and                  *)
(* EF = F[X]/(X^2 - 2) (degree D = 2); usize is USIZE_BITS wide.  An        *)
(* arithmetic overflow of usize panics when the build has overflow checks  *)
(* (debug profile) and wraps otherwise (release profile); the profile is   *)
(* the variable overflow_checks.                                           *)
(*                                                                         *)
(* Indices (node ids, groups, offsets, ...) are 0-based as in the source;  *)
(* a vector v is a TLA+ sequence and v[i] of the source is v[i + 1] here.  *)
(***************************************************************************)
EXTENDS Integers, Sequences, FiniteSets, TLC

VARIABLES
    overflow_checks, \* build profile: TRUE = overflow panics, FALSE = wraps
    pc,              \* position of the caller in the pipeline
    raw,             \* raw chip or raw machine handed to the builder
    info,            \* result of NodesInfo::new(raw.nodes)
    degrees,         \* result of NodesInfo::get_degrees
    zf,              \* zerofier evaluation call: expression, x, g, n
    zeval,           \* result of ZerofierExpression::eval
    chip,            \* result of ChipMetadata::try_from(raw)
    nqe,             \* result of chip.num_quotient_evals()
    witness,         \* arguments of ChipData::new
    data,            \* result of ChipData::new(chip, witness...)
    challenge,       \* arguments of check_quotient
    quotient,        \* check_quotient's local `quotient`, once computed
    verdict,         \* result of check_quotient
    validated,       \* results of the three variable validators
    dimension,       \* result of NodesInfo::get_dimension
    machine,         \* result of MachineMetadata::try_from(raw)
    legacy           \* result of ChipData::new of constraint.rs

vars ==
    <<overflow_checks, pc, raw, info, degrees, zf, zeval, chip, nqe, witness,
      data, challenge, quotient, verdict, validated, dimension, machine,
      legacy>>

(***************************************************************************)
(* Bounds of the model.                                                    *)
(***************************************************************************)
USIZE_BITS == 16
MaxNodes == 2
MaxConstraints == 2
MaxRows == 2

(***************************************************************************)
(* Results: Ok(v), Err(e), a panic (unwinding abort), Option.              *)
(***************************************************************************)
NotRun == [tag |-> "NotRun"]
Ok(v) == [tag |-> "Ok", val |-> v]
Err(e) == [tag |-> "Err", err |-> e]
Panic(why) == [tag |-> "Panic", why |-> why]
None == [some |-> FALSE]
Some(v) == [some |-> TRUE, v |-> v]

IsOk(r) == r.tag = "Ok"
IsErr(r) == r.tag = "Err"
IsPanic(r) == r.tag = "Panic"

RECURSIVE Pow2(_)
Pow2(k) == IF k = 0 THEN 1 ELSE 2 * Pow2(k - 1)

Max(a, b) == IF a >= b THEN a ELSE b

(***************************************************************************)
(* usize arithmetic.                                                       *)
(***************************************************************************)
USIZE_MAX == Pow2(USIZE_BITS) - 1
AddOverflows(a, b) == a + b > USIZE_MAX
WrappingAdd(a, b) == (a + b) % Pow2(USIZE_BITS)

(***************************************************************************)
(* The base field F = GF(P) and the extension EF = F[X]/(X^D - NONRES),    *)
(* an element a + b X of EF being <<a, b>>.                                 *)
(***************************************************************************)
P == 5
D == 2
NONRES == 2
TWO_ADICITY == 2
F == 0 .. (P - 1)
EF == F \X F

FAdd(a, b) == (a + b) % P
FSub(a, b) == (a + P - b) % P
FMul(a, b) == (a * b) % P
FInv(a) == CHOOSE b \in F : FMul(a, b) = 1

EFZero == <<0, 0>>
EFOne == <<1, 0>>
EFFromBase(a) == <<a, 0>>
EFAdd(x, y) == <<FAdd(x[1], y[1]), FAdd(x[2], y[2])>>
EFSub(x, y) == <<FSub(x[1], y[1]), FSub(x[2], y[2])>>
EFMul(x, y) ==
    <<FAdd(FMul(x[1], y[1]), FMul(NONRES, FMul(x[2], y[2]))),
      FAdd(FMul(x[1], y[2]), FMul(x[2], y[1]))>>
\* try_inverse: None for zero, else the inverse conj(x) / norm(x)
EFTryInverse(x) ==
    IF x = EFZero THEN None
    ELSE LET norm == FSub(FMul(x[1], x[1]), FMul(NONRES, FMul(x[2], x[2])))
             ninv == FInv(norm)
         IN  Some(<<FMul(x[1], ninv), FMul(FSub(0, x[2]), ninv)>>)
\* monomial(i): the i-th basis element X^i of EF over F
EFMonomial(i) == IF i = 0 THEN <<1, 0>> ELSE <<0, 1>>
\* from_base_slice: the element with the given base coefficients
EFFromBaseSlice(s) == <<s[1], s[2]>>

\* exp_u64: square and multiply over the bits of the exponent
RECURSIVE EFExpU64(_, _)
EFExpU64(x, k) ==
    IF k = 0 THEN EFOne
    ELSE IF k % 2 = 1 THEN EFMul(x, EFExpU64(EFMul(x, x), k \div 2))
    ELSE EFExpU64(EFMul(x, x), k \div 2)

\* exp_power_of_2: log_n squarings
RECURSIVE EFExpPowerOf2(_, _)
EFExpPowerOf2(x, log_n) ==
    IF log_n = 0 THEN x ELSE EFExpPowerOf2(EFMul(x, x), log_n - 1)

RECURSIVE FExp(_, _)
FExp(a, k) ==
    IF k = 0 THEN 1
    ELSE IF k % 2 = 1 THEN FMul(a, FExp(FMul(a, a), k \div 2))
    ELSE FExp(FMul(a, a), k \div 2)

\* two_adic_generator(bits): an element of order 2^bits (2 generates F^*)
TwoAdicGenerator(bits) == FExp(2, Pow2(TWO_ADICITY - bits))

(***************************************************************************)
(* Node, VarScope, FieldType (node.rs).                                    *)
(***************************************************************************)
Base == "Base"
Ext == "Ext"
Global == [kind |-> "Global"]
Local(chip_id) == [kind |-> "Local", chip_id |-> chip_id]

Constant(c) == [tag |-> "Constant", c |-> c]
Trace(segment, col_offset, row_offset, field_type) ==
    [tag |-> "Trace", segment |-> segment, col_offset |-> col_offset,
     row_offset |-> row_offset, field_type |-> field_type]
Var(scope, group, offset, field_type) ==
    [tag |-> "Var", scope |-> scope, group |-> group, offset |-> offset,
     field_type |-> field_type]
Periodic(column) == [tag |-> "Periodic", column |-> column]
Add(lhs_id, rhs_id) == [tag |-> "Add", lhs_id |-> lhs_id, rhs_id |-> rhs_id]
Sub(lhs_id, rhs_id) == [tag |-> "Sub", lhs_id |-> lhs_id, rhs_id |-> rhs_id]
Mul(lhs_id, rhs_id) == [tag |-> "Mul", lhs_id |-> lhs_id, rhs_id |-> rhs_id]

IsArith(node) == node.tag \in {"Add", "Sub", "Mul"}

\* NodeError
InvalidReference(i) == [kind |-> "InvalidReference", idx |-> i]
VariableErr(i) == [kind |-> "Variable", idx |-> i]
TraceErr(i) == [kind |-> "Trace", idx |-> i]
PeriodicErr(i) == [kind |-> "Periodic", idx |-> i]

(***************************************************************************)
(* NodesInfo::new: the loop over nodes.iter().enumerate(), from node_id.   *)
(***************************************************************************)
RefersForwardLhsOnly(node, node_id) ==
    IsArith(node) /\ node.lhs_id >= node_id

\* the match of one iteration: an arithmetic node with an operand >= node_id
RefersForward(node, node_id) ==
    IsArith(node) /\ (node.lhs_id >= node_id \/ node.rhs_id >= node_id)

RECURSIVE NewLoop(_, _)
NewLoop(nodes, node_id) ==
    IF node_id >= Len(nodes) THEN Ok(nodes)
    ELSE IF RefersForward(nodes[node_id + 1], node_id)
         THEN Err(InvalidReference(node_id))
         ELSE NewLoop(nodes, node_id + 1)

NodesInfoNew(nodes) == NewLoop(nodes, 0)

(***************************************************************************)
(* NodesInfo::get_degrees: the loop pushing onto degrees.  degrees[id]     *)
(* panics when id is not yet pushed (possible only through new_unchecked). *)
(***************************************************************************)
IndexPanic == Panic("index out of bounds")
OverflowPanic == Panic("arithmetic overflow")

\* the match of one iteration: the degree of node, given the degrees pushed
NodeDegree(node, degs) ==
    CASE node.tag \in {"Constant", "Var"} -> Ok(0)
      [] node.tag \in {"Trace", "Periodic"} -> Ok(1)
      [] node.tag \in {"Add", "Sub"} ->
            IF node.lhs_id >= Len(degs) \/ node.rhs_id >= Len(degs)
            THEN IndexPanic
            ELSE Ok(Max(degs[node.lhs_id + 1], degs[node.rhs_id + 1]))
      [] node.tag = "Mul" ->
            IF node.lhs_id >= Len(degs) \/ node.rhs_id >= Len(degs)
            THEN IndexPanic
            ELSE LET l == degs[node.lhs_id + 1]
                     r == degs[node.rhs_id + 1]
                 IN  IF AddOverflows(l, r) /\ overflow_checks
                     THEN OverflowPanic
                     ELSE Ok(WrappingAdd(l, r))

RECURSIVE DegreesLoop(_, _)
DegreesLoop(nodes, degs) ==
    IF Len(degs) >= Len(nodes) THEN Ok(degs)
    ELSE LET d == NodeDegree(nodes[Len(degs) + 1], degs) IN
         IF IsPanic(d) THEN d ELSE DegreesLoop(nodes, Append(degs, d.val))

GetDegrees(nodes) == DegreesLoop(nodes, <<>>)

(***************************************************************************)
(* ZerofierExpression and Exponent (zerofier.rs).                          *)
(***************************************************************************)
First(i) == [kind |-> "First", i |-> i]
Last(i) == [kind |-> "Last", i |-> i]
Rate(i) == [kind |-> "Rate", i |-> i]

ZConstant(c) == [tag |-> "Constant", c |-> c]
ZX(exp) == [tag |-> "X", exp |-> exp]
ZG(exp) == [tag |-> "G", exp |-> exp]
ZAdd(l, r) == [tag |-> "Add", lhs |-> l, rhs |-> r]
ZSub(l, r) == [tag |-> "Sub", lhs |-> l, rhs |-> r]
ZMul(l, r) == [tag |-> "Mul", lhs |-> l, rhs |-> r]
ZDiv(l, r) == [tag |-> "Div", lhs |-> l, rhs |-> r]

\* Exponent::power: n - i overflows for i > n, n / 0 always panics
ExponentPower(exp, n) ==
    CASE exp.kind = "First" -> Ok(exp.i)
      [] exp.kind = "Last" ->
            IF exp.i > n
            THEN IF overflow_checks THEN OverflowPanic
                 ELSE Ok(n - exp.i + Pow2(USIZE_BITS))
            ELSE Ok(n - exp.i)
      [] exp.kind = "Rate" ->
            IF exp.i = 0 THEN Panic("attempt to divide by zero")
            ELSE Ok(n \div exp.i)

\* the binary arms of eval, once both operands evaluated to Some
ZBinary(tag, l, r) ==
    CASE tag = "Add" -> Some(EFAdd(l, r))
      [] tag = "Sub" -> Some(EFSub(l, r))
      [] tag = "Mul" -> Some(EFMul(l, r))
      [] tag = "Div" -> LET inv == EFTryInverse(r) IN
                        IF inv.some THEN Some(EFMul(l, inv.v)) ELSE None

\* the X and G arms of eval: both raise x (g is not used)
ZPowerArm(tag, p, x, g) == EFExpU64(x, p)

\* ZerofierExpression::eval: Ok(Some(v)), Ok(None), or a panic of power
RECURSIVE ZEval(_, _, _, _)
ZEval(e, x, g, n) ==
    CASE e.tag = "Constant" -> Ok(Some(EFFromBase(e.c)))
      [] e.tag \in {"X", "G"} ->
            LET p == ExponentPower(e.exp, n) IN
            IF IsPanic(p) THEN p ELSE Ok(Some(ZPowerArm(e.tag, p.val, x, g)))
      [] OTHER ->
            LET l == ZEval(e.lhs, x, g, n) IN
            IF IsPanic(l) THEN l
            ELSE IF ~l.val.some THEN Ok(None)
            ELSE LET r == ZEval(e.rhs, x, g, n) IN
                 IF IsPanic(r) THEN r
                 ELSE IF ~r.val.some THEN Ok(None)
                 ELSE Ok(ZBinary(e.tag, l.val.v, r.val.v))

(***************************************************************************)
(* Expression and RawChipMetadata (constraint.rs, chip_metadata.rs).       *)
(***************************************************************************)
Expression(node_id, zerofier_id) ==
    [node_id |-> node_id, zerofier_id |-> zerofier_id]

RawChipMetadata(num_local_variables, trace_widths, zerofiers, periodic, nodes, constraints) ==
    [num_local_variables |-> num_local_variables,
     trace_widths |-> trace_widths, zerofiers |-> zerofiers,
     periodic |-> periodic, nodes |-> nodes, constraints |-> constraints]

(***************************************************************************)
(* NodesInfo validators (node.rs).                                         *)
(***************************************************************************)
ElementWidth(field_type) == IF field_type = Base THEN 1 ELSE D

\* element_exceeds_width: offset + element_width > width, the sum in usize
ElementExceedsWidth(width, offset, field_type) ==
    LET w == ElementWidth(field_type) IN
    IF AddOverflows(offset, w) /\ overflow_checks THEN OverflowPanic
    ELSE Ok(WrappingAdd(offset, w) > width)

\* one iteration of validate_shared_variables: Ok(TRUE) when node offends
SharedVariableOffends(node, num_shared_vars) ==
    IF node.tag = "Var" /\ node.scope.kind = "Local"
    THEN IF node.scope.chip_id >= Len(num_shared_vars) THEN Ok(TRUE)
         ELSE LET groups == num_shared_vars[node.scope.chip_id + 1] IN
              IF node.group >= Len(groups) THEN Ok(TRUE)
              ELSE ElementExceedsWidth(groups[node.group + 1], node.offset,
                                       node.field_type)
    ELSE Ok(FALSE)

RECURSIVE SharedLoop(_, _, _)
SharedLoop(nodes, num_shared_vars, node_id) ==
    IF node_id >= Len(nodes) THEN Ok(TRUE)
    ELSE LET o == SharedVariableOffends(nodes[node_id + 1], num_shared_vars)
         IN  IF IsPanic(o) THEN o
             ELSE IF o.val THEN Err(VariableErr(node_id))
             ELSE SharedLoop(nodes, num_shared_vars, node_id + 1)

ValidateSharedVariables(nodes, num_shared_vars) ==
    SharedLoop(nodes, num_shared_vars, 0)

\* slice::from_ref: the chip's own groups are the only entry, chip_id 0
ValidateLocalVariables(nodes, num_local_variables) ==
    ValidateSharedVariables(nodes, <<num_local_variables>>)

\* one iteration of validate_global_variables
GlobalVariableOffends(node, num_variables) ==
    IF node.tag = "Var" /\ node.scope.kind = "Global"
    THEN IF node.group >= Len(num_variables) THEN Ok(TRUE)
         ELSE ElementExceedsWidth(num_variables[node.group + 1], node.offset,
                                  node.field_type)
    ELSE Ok(FALSE)

RECURSIVE GlobalLoop(_, _, _)
GlobalLoop(nodes, num_variables, node_id) ==
    IF node_id >= Len(nodes) THEN Ok(TRUE)
    ELSE LET o == GlobalVariableOffends(nodes[node_id + 1], num_variables)
         IN  IF IsPanic(o) THEN o
             ELSE IF o.val THEN Err(VariableErr(node_id))
             ELSE GlobalLoop(nodes, num_variables, node_id + 1)

ValidateGlobalVariables(nodes, num_variables) ==
    GlobalLoop(nodes, num_variables, 0)

RECURSIVE PeriodicLoop(_, _, _)
PeriodicLoop(nodes, num_periodic_columns, node_id) ==
    IF node_id >= Len(nodes) THEN Ok(TRUE)
    ELSE LET node == nodes[node_id + 1] IN
         IF node.tag = "Periodic" /\ node.column >= num_periodic_columns
         THEN Err(PeriodicErr(node_id))
         ELSE PeriodicLoop(nodes, num_periodic_columns, node_id + 1)

ValidatePeriodic(nodes, num_periodic_columns) ==
    PeriodicLoop(nodes, num_periodic_columns, 0)

(***************************************************************************)
(* NodesInfo::get_dimension.                                               *)
(***************************************************************************)
Dimensions(width, height) == [width |-> width, height |-> height]

\* the closure on the segment's dim: Ok(<<new height, exceeds>>) or a panic
TraceWindow(dim, node) ==
    IF AddOverflows(node.row_offset, 1) /\ overflow_checks THEN OverflowPanic
    ELSE LET h == Max(dim.height, WrappingAdd(node.row_offset, 1))
             e == ElementExceedsWidth(dim.width, node.col_offset,
                                      node.field_type)
         IN  IF IsPanic(e) THEN e ELSE Ok(<<h, e.val>>)

RECURSIVE DimensionLoop(_, _, _)
DimensionLoop(nodes, dims, node_id) ==
    IF node_id >= Len(nodes) THEN Ok(dims)
    ELSE LET node == nodes[node_id + 1] IN
         IF node.tag # "Trace" THEN DimensionLoop(nodes, dims, node_id + 1)
         ELSE IF node.segment >= Len(dims) THEN Err(TraceErr(node_id))
         ELSE LET w == TraceWindow(dims[node.segment + 1], node) IN
              IF IsPanic(w) THEN w
              ELSE IF w.val[2] THEN Err(TraceErr(node_id))
              ELSE DimensionLoop(
                       nodes,
                       [dims EXCEPT ![node.segment + 1].height = w.val[1]],
                       node_id + 1)

GetDimension(nodes, trace_widths) ==
    DimensionLoop(
        nodes,
        [s \in 1 .. Len(trace_widths) |-> Dimensions(trace_widths[s], 0)],
        0)

(***************************************************************************)
(* ChipMetadata::try_from (chip_metadata.rs).                              *)
(***************************************************************************)
NodeError(e) == [kind |-> "NodeError", err |-> e]
PeriodicLenErr(col_idx) == [kind |-> "Periodic", idx |-> col_idx]
ConstraintErr(constraint_idx) == [kind |-> "Constraint", idx |-> constraint_idx]

\* the ? on a NodeError result: From<NodeError> for ChipError
LiftNodeError(r) == IF IsErr(r) THEN Err(NodeError(r.err)) ELSE r

IsPowerOfTwo(x) == \E k \in 0 .. (USIZE_BITS - 1) : x = Pow2(k)

RECURSIVE PeriodicLenLoop(_, _)
PeriodicLenLoop(periodic, col_idx) ==
    IF col_idx >= Len(periodic) THEN Ok(TRUE)
    ELSE IF ~IsPowerOfTwo(Len(periodic[col_idx + 1]))
         THEN Err(PeriodicLenErr(col_idx))
         ELSE PeriodicLenLoop(periodic, col_idx + 1)

\* the condition of the constraint loop: node_id out of range, or
\* zerofier_id.is_some_and(|id| id >= zerofiers.len())
ConstraintOffends(constraint, num_nodes, num_zerofiers) ==
    \/ constraint.node_id >= num_nodes
    \/ (constraint.zerofier_id.some
        /\ constraint.zerofier_id.v >= num_zerofiers)

RECURSIVE ConstraintLoop(_, _, _, _)
ConstraintLoop(constraints, num_nodes, num_zerofiers, constraint_idx) ==
    IF constraint_idx >= Len(constraints) THEN Ok(TRUE)
    ELSE IF ConstraintOffends(constraints[constraint_idx + 1], num_nodes,
                              num_zerofiers)
         THEN Err(ConstraintErr(constraint_idx))
         ELSE ConstraintLoop(constraints, num_nodes, num_zerofiers,
                             constraint_idx + 1)

ChipMetadata(value, trace_window_dimensions, degs) ==
    [num_local_variables |-> value.num_local_variables,
     trace_window_dimensions |-> trace_window_dimensions,
     periodic |-> value.periodic, zerofiers |-> value.zerofiers,
     nodes |-> value.nodes, constraints |-> value.constraints,
     degrees |-> degs]

ChipTryFrom(value) ==
    LET nodes_info == LiftNodeError(NodesInfoNew(value.nodes)) IN
    IF ~IsOk(nodes_info) THEN nodes_info ELSE
    LET locals == LiftNodeError(
            ValidateLocalVariables(value.nodes, value.num_local_variables)) IN
    IF ~IsOk(locals) THEN locals ELSE
    LET trace_window_dimensions ==
            LiftNodeError(GetDimension(value.nodes, value.trace_widths)) IN
    IF ~IsOk(trace_window_dimensions) THEN trace_window_dimensions ELSE
    LET periodic_refs ==
            LiftNodeError(ValidatePeriodic(value.nodes, Len(value.periodic))) IN
    IF ~IsOk(periodic_refs) THEN periodic_refs ELSE
    LET periodic_lens == PeriodicLenLoop(value.periodic, 0) IN
    IF ~IsOk(periodic_lens) THEN periodic_lens ELSE
    LET checked == ConstraintLoop(value.constraints, Len(value.nodes),
                                  Len(value.zerofiers), 0) IN
    IF ~IsOk(checked) THEN checked ELSE
    LET degs == GetDegrees(value.nodes) IN
    IF ~IsOk(degs) THEN degs
    ELSE Ok(ChipMetadata(value, trace_window_dimensions.val, degs.val))

(***************************************************************************)
(* ChipMetadata::max_constraint_degree, num_quotient_evals (constraint.rs) *)
(***************************************************************************)
RECURSIVE MaxDegreeFold(_, _, _)
MaxDegreeFold(c, k, acc) ==
    IF k > Len(c.constraints) THEN acc
    ELSE LET d == c.degrees[c.constraints[k].node_id + 1] IN
         MaxDegreeFold(c, k + 1, IF acc.some THEN Some(Max(acc.v, d)) ELSE Some(d))

\* .max().unwrap_or(0)
MaxConstraintDegree(c) ==
    LET m == MaxDegreeFold(c, 1, None) IN IF m.some THEN m.v ELSE 0

RECURSIVE PowerOfTwoFrom(_, _)
PowerOfTwoFrom(p, x) == IF p >= x THEN p ELSE PowerOfTwoFrom(2 * p, x)

\* usize::next_power_of_two: overflow panics or, unchecked, gives 0
NextPowerOfTwo(x) ==
    LET p == PowerOfTwoFrom(1, x) IN
    IF p > USIZE_MAX THEN (IF overflow_checks THEN OverflowPanic ELSE Ok(0))
    ELSE Ok(p)

NumQuotientEvals(c) == NextPowerOfTwo(Max(MaxConstraintDegree(c), 2) - 1)

(***************************************************************************)
(* unflatten_extension (constraint.rs): sum of monomial(e_i) * base_i.     *)
(***************************************************************************)
RECURSIVE UnflattenSum(_, _)
UnflattenSum(bases, e_i) ==
    IF e_i >= Len(bases) THEN EFZero
    ELSE EFAdd(EFMul(EFMonomial(e_i), bases[e_i + 1]),
               UnflattenSum(bases, e_i + 1))

UnflattenExtension(bases) == UnflattenSum(bases, 0)

(***************************************************************************)
(* DataError and ChipData::new (chip.rs).                                  *)
(***************************************************************************)
NumLocalVariableGroups(actual, expected) ==
    [kind |-> "NumLocalVariableGroups", actual |-> actual, expected |-> expected]
NumLocalVariables(group, actual, expected) ==
    [kind |-> "NumLocalVariables", group |-> group, actual |-> actual,
     expected |-> expected]
NumTraces(actual, expected) ==
    [kind |-> "NumTraces", actual |-> actual, expected |-> expected]
SegmentHeight(segment_index, actual, expected) ==
    [kind |-> "SegmentHeight", segment_index |-> segment_index,
     actual |-> actual, expected |-> expected]
SegmentRowWidth(segment_index, row_index, actual, expected) ==
    [kind |-> "SegmentRowWidth", segment_index |-> segment_index,
     row_index |-> row_index, actual |-> actual, expected |-> expected]
NumQuotientEvalsErr(actual, expected) ==
    [kind |-> "NumQuotientEvals", actual |-> actual, expected |-> expected]
MinHeight(column_index, col_len, height) ==
    [kind |-> "MinHeight", column_index |-> column_index, col_len |-> col_len,
     height |-> height]
UndefinedZerofierEval(idx) == [kind |-> "UndefinedZerofierEval", idx |-> idx]
InvalidQuotient == [kind |-> "InvalidQuotient"]

\* 1 << log: the shift amount must be below the width of usize
ShiftLeftOne(log) ==
    IF log >= USIZE_BITS
    THEN IF overflow_checks THEN OverflowPanic ELSE Ok(Pow2(log % USIZE_BITS))
    ELSE Ok(Pow2(log))

\* the condition of the periodic loop of new
ColumnTooLong(col_len, height) == col_len > height

RECURSIVE MinHeightLoop(_, _, _)
MinHeightLoop(periodic, height, column_index) ==
    IF column_index >= Len(periodic) THEN Ok(TRUE)
    ELSE IF ColumnTooLong(Len(periodic[column_index + 1]), height)
         THEN Err(MinHeight(column_index, Len(periodic[column_index + 1]),
                            height))
         ELSE MinHeightLoop(periodic, height, column_index + 1)

\* zip(&local_variables, &chip.num_local_variables).enumerate()
RECURSIVE LocalLenLoop(_, _, _)
LocalLenLoop(local_variables, num_local_variables, group) ==
    IF group >= Len(local_variables) \/ group >= Len(num_local_variables)
    THEN Ok(TRUE)
    ELSE IF Len(local_variables[group + 1]) # num_local_variables[group + 1]
         THEN Err(NumLocalVariables(group, Len(local_variables[group + 1]),
                                    num_local_variables[group + 1]))
         ELSE LocalLenLoop(local_variables, num_local_variables, group + 1)

RECURSIVE RowWidthLoop(_, _, _, _)
RowWidthLoop(segment_rows, dim, segment_index, row_index) ==
    IF row_index >= Len(segment_rows) THEN Ok(TRUE)
    ELSE IF Len(segment_rows[row_index + 1]) # dim.width
         THEN Err(SegmentRowWidth(segment_index, row_index,
                                  Len(segment_rows[row_index + 1]), dim.width))
         ELSE RowWidthLoop(segment_rows, dim, segment_index, row_index + 1)

RECURSIVE SegmentLoop(_, _, _)
SegmentLoop(trace_evals, dims, segment_index) ==
    IF segment_index >= Len(trace_evals) \/ segment_index >= Len(dims)
    THEN Ok(TRUE)
    ELSE LET segment_rows == trace_evals[segment_index + 1]
             dim == dims[segment_index + 1]
         IN  IF Len(segment_rows) # dim.height
             THEN Err(SegmentHeight(segment_index, Len(segment_rows),
                                    dim.height))
             ELSE LET rows == RowWidthLoop(segment_rows, dim, segment_index, 0)
                  IN  IF ~IsOk(rows) THEN rows
                      ELSE SegmentLoop(trace_evals, dims, segment_index + 1)

\* chip.num_quotient_evals() * EF::D, the product in usize
ExpectedQuotientEvals(c) ==
    LET q == NumQuotientEvals(c) IN
    IF IsPanic(q) THEN q
    ELSE IF q.val * D > USIZE_MAX
         THEN IF overflow_checks THEN OverflowPanic
              ELSE Ok((q.val * D) % Pow2(USIZE_BITS))
         ELSE Ok(q.val * D)

ChipData(c, local_variables, trace_evals, quotient_evals, log_height) ==
    [chip |-> c, local_variables |-> local_variables,
     trace_evals |-> trace_evals, quotient_evals |-> quotient_evals,
     log_height |-> log_height]

ChipDataNew(c, local_variables, trace_evals, quotient_evals, log_height) ==
    LET height == ShiftLeftOne(log_height) IN
    IF IsPanic(height) THEN height ELSE
    LET min_height == MinHeightLoop(c.periodic, height.val, 0) IN
    IF ~IsOk(min_height) THEN min_height ELSE
    IF Len(local_variables) # Len(c.num_local_variables)
    THEN Err(NumLocalVariableGroups(Len(local_variables),
                                    Len(c.num_local_variables))) ELSE
    LET local_lens == LocalLenLoop(local_variables, c.num_local_variables, 0) IN
    IF ~IsOk(local_lens) THEN local_lens ELSE
    IF Len(trace_evals) # Len(c.trace_window_dimensions)
    THEN Err(NumTraces(Len(trace_evals), Len(c.trace_window_dimensions))) ELSE
    LET segments == SegmentLoop(trace_evals, c.trace_window_dimensions, 0) IN
    IF ~IsOk(segments) THEN segments ELSE
    LET num_quotient_evals == ExpectedQuotientEvals(c) IN
    IF IsPanic(num_quotient_evals) THEN num_quotient_evals ELSE
    IF Len(quotient_evals) # num_quotient_evals.val
    THEN Err(NumQuotientEvalsErr(Len(quotient_evals), num_quotient_evals.val))
    ELSE Ok(ChipData(c, local_variables, trace_evals, quotient_evals,
                     log_height))

(***************************************************************************)
(* Node::eval (node.rs).  An index or a slice range outside its vector     *)
(* panics; the panic names the vector that was indexed.                    *)
(***************************************************************************)
OutOfBounds(what) == Panic(<<"index out of bounds", what>>)

\* v[start .. start + D]: Ok(the D elements) or the panic of the slice
SliceD(v, start, what) ==
    IF AddOverflows(start, D) \/ start + D > Len(v) THEN OutOfBounds(what)
    ELSE Ok([k \in 1 .. D |-> v[start + k]])

TraceEval(node, trace_evals) ==
    IF node.segment >= Len(trace_evals) THEN OutOfBounds("trace_evals")
    ELSE LET rows == trace_evals[node.segment + 1] IN
    IF node.row_offset >= Len(rows) THEN OutOfBounds("trace_evals")
    ELSE LET row == rows[node.row_offset + 1] IN
    IF node.field_type = Base
    THEN IF node.col_offset >= Len(row) THEN OutOfBounds("trace_evals")
         ELSE Ok(row[node.col_offset + 1])
    ELSE LET bases == SliceD(row, node.col_offset, "trace_evals") IN
         IF IsPanic(bases) THEN bases ELSE Ok(UnflattenExtension(bases.val))

VarEval(node, global_variables, local_variables) ==
    LET what == IF node.scope.kind = "Global" THEN "global_variables"
                ELSE "local_variables"
    IN
    IF node.scope.kind = "Local" /\ node.scope.chip_id >= Len(local_variables)
    THEN OutOfBounds(what)
    ELSE LET variables == IF node.scope.kind = "Global" THEN global_variables
                          ELSE local_variables[node.scope.chip_id + 1]
         IN
    IF node.group >= Len(variables) THEN OutOfBounds(what)
    ELSE LET vdata == variables[node.group + 1] IN
    IF node.field_type = Base
    THEN IF node.offset >= Len(vdata) THEN OutOfBounds(what)
         ELSE Ok(EFFromBase(vdata[node.offset + 1]))
    ELSE LET bases == SliceD(vdata, node.offset, what) IN
         IF IsPanic(bases) THEN bases ELSE Ok(EFFromBaseSlice(bases.val))

ArithEval(node, prev_evals) ==
    IF node.lhs_id >= Len(prev_evals) \/ node.rhs_id >= Len(prev_evals)
    THEN OutOfBounds("prev_evals")
    ELSE LET l == prev_evals[node.lhs_id + 1]
             r == prev_evals[node.rhs_id + 1]
         IN  CASE node.tag = "Add" -> Ok(EFAdd(l, r))
               [] node.tag = "Sub" -> Ok(EFSub(l, r))
               [] node.tag = "Mul" -> Ok(EFMul(l, r))

NodeEval(node, prev_evals, global_variables, local_variables, trace_evals, periodic_evals) ==
    CASE node.tag = "Constant" -> Ok(EFFromBase(node.c))
      [] node.tag = "Trace" -> TraceEval(node, trace_evals)
      [] node.tag = "Var" -> VarEval(node, global_variables, local_variables)
      [] node.tag = "Periodic" ->
            IF node.column >= Len(periodic_evals)
            THEN OutOfBounds("periodic_evals")
            ELSE Ok(periodic_evals[node.column + 1])
      [] OTHER -> ArithEval(node, prev_evals)

(***************************************************************************)
(* ChipData::check_quotient (chip.rs).                                     *)
(***************************************************************************)
\* a periodic evaluation that reads the column: its first value
PeriodicEvalsFirstValue(periodic) ==
    [c \in 1 .. Len(periodic) |-> EFFromBase(periodic[c][1])]

\* the periodic evaluation: a zero per column
PeriodicEvals(periodic) == [c \in 1 .. Len(periodic) |-> EFZero]

\* the loop pushing node.eval(&evals, ...) onto evals
RECURSIVE EvalsLoop(_, _, _, _)
EvalsLoop(d, global_variables, periodic_evals, evals) ==
    IF Len(evals) >= Len(d.chip.nodes) THEN Ok(evals)
    ELSE LET e == NodeEval(d.chip.nodes[Len(evals) + 1], evals,
                           global_variables, <<d.local_variables>>,
                           d.trace_evals, periodic_evals)
         IN  IF IsPanic(e) THEN e
             ELSE EvalsLoop(d, global_variables, periodic_evals,
                            Append(evals, e.val))

\* zerofier.eval(zeta, g, n).and_then(|eval| eval.try_inverse())
InverseZerofier(zerofier, zeta, g, n) ==
    LET e == ZEval(zerofier, zeta, g, n) IN
    IF IsPanic(e) THEN e
    ELSE IF ~e.val.some THEN Ok(None)
    ELSE Ok(EFTryInverse(e.val.v))

\* .map(...ok_or(UndefinedZerofierEval(idx))).collect::<Result<_, _>>()
RECURSIVE InverseZerofierLoop(_, _, _, _, _)
InverseZerofierLoop(zerofiers, zeta, g, n, invs) ==
    IF Len(invs) >= Len(zerofiers) THEN Ok(invs)
    ELSE LET inv == InverseZerofier(zerofiers[Len(invs) + 1], zeta, g, n) IN
         IF IsPanic(inv) THEN inv
         ELSE IF ~inv.val.some THEN Err(UndefinedZerofierEval(Len(invs)))
         ELSE InverseZerofierLoop(zerofiers, zeta, g, n, Append(invs, inv.val.v))

\* constraints.iter().rev().fold(zero, |acc, c| acc * alpha + eval), the
\* constraints k, k - 1, ..., 1 still to be folded into acc
RECURSIVE QuotientFold(_, _, _, _, _, _)
QuotientFold(constraints, evals, invs, alpha, k, acc) ==
    IF k = 0 THEN Ok(acc)
    ELSE LET constraint == constraints[k] IN
         IF ~constraint.zerofier_id.some
         THEN Panic("called Option::unwrap() on a None value")
         ELSE IF constraint.node_id >= Len(evals)
                 \/ constraint.zerofier_id.v >= Len(invs)
         THEN OutOfBounds("evals")
         ELSE LET eval == EFMul(evals[constraint.node_id + 1],
                                invs[constraint.zerofier_id.v + 1])
              IN  QuotientFold(constraints, evals, invs, alpha, k - 1,
                               EFAdd(EFMul(acc, alpha), eval))

QuotientForward(constraints, evals, invs, alpha) ==
    LET RECURSIVE Fwd(_, _)
        Fwd(k, acc) ==
            IF k > Len(constraints) THEN Ok(acc)
            ELSE LET constraint == constraints[k] IN
                 IF ~constraint.zerofier_id.some
                 THEN Panic("called Option::unwrap() on a None value")
                 ELSE Fwd(k + 1,
                          EFAdd(EFMul(acc, alpha),
                                EFMul(evals[constraint.node_id + 1],
                                      invs[constraint.zerofier_id.v + 1])))
    IN  Fwd(1, EFZero)

Quotient(constraints, evals, invs, alpha) ==
    QuotientFold(constraints, evals, invs, alpha, Len(constraints), EFZero)

\* chunks_exact(EF::D).map(unflatten_extension)
QuotientChunks(quotient_evals) ==
    [i \in 1 .. (Len(quotient_evals) \div D) |->
        UnflattenExtension([k \in 1 .. D |-> quotient_evals[(i - 1) * D + k]])]

\* .rev().fold(zero, |acc, eval| acc * zeta_pow_n + eval)
RECURSIVE ExpectedFold(_, _, _, _)
ExpectedFold(chunks, zeta_pow_n, i, acc) ==
    IF i = 0 THEN acc
    ELSE ExpectedFold(chunks, zeta_pow_n, i - 1,
                      EFAdd(EFMul(acc, zeta_pow_n), chunks[i]))

QuotientExpected(quotient_evals, zeta, log_n) ==
    LET chunks == QuotientChunks(quotient_evals) IN
    ExpectedFold(chunks, EFExpPowerOf2(zeta, log_n), Len(chunks), EFZero)

\* the body of check_quotient: the locals computed and the result returned
CheckQuotient(d, global_variables, zeta, alpha) ==
    LET log_n == d.log_height
        n == ShiftLeftOne(log_n)
    IN
    IF IsPanic(n) THEN [quotient |-> NotRun, result |-> n] ELSE
    IF log_n > TWO_ADICITY
    THEN [quotient |-> NotRun, result |-> Panic("bits > TWO_ADICITY")] ELSE
    LET g == TwoAdicGenerator(log_n)
        periodic_evals == PeriodicEvals(d.chip.periodic)
        evals == EvalsLoop(d, global_variables, periodic_evals, <<>>)
    IN
    IF IsPanic(evals) THEN [quotient |-> NotRun, result |-> evals] ELSE
    LET inverse_zerofier_evals ==
            InverseZerofierLoop(d.chip.zerofiers, zeta, g, n.val, <<>>)
    IN
    IF ~IsOk(inverse_zerofier_evals)
    THEN [quotient |-> NotRun, result |-> inverse_zerofier_evals] ELSE
    LET q == Quotient(d.chip.constraints, evals.val,
                      inverse_zerofier_evals.val, alpha)
    IN
    IF IsPanic(q) THEN [quotient |-> NotRun, result |-> q] ELSE
    LET quotient_expected == QuotientExpected(d.quotient_evals, zeta, log_n) IN
    [quotient |-> q,
     result |-> IF q.val # quotient_expected THEN Err(InvalidQuotient)
                ELSE Ok(TRUE)]

(***************************************************************************)
(* Inputs of the node analysis: every node list of at most MaxNodes nodes  *)
(* whose node at index i is a leaf or an arithmetic node with operands in  *)
(* 0 .. i + 1 (earlier nodes, itself, the next node), and four longer      *)
(* lists: two of degree 3 and 4, one whose degrees reach                   *)
(* 2^(USIZE_BITS - 1) + 2 and one whose last degree is 2^USIZE_BITS.       *)
(***************************************************************************)
AnalysisLeaves ==
    {Constant(1), Var(Local(0), 0, 0, Base), Trace(0, 0, 0, Base), Periodic(0)}

NodesAt(i) ==
    AnalysisLeaves
    \cup {Add(l, r) : l \in 0 .. (i + 1), r \in 0 .. (i + 1)}
    \cup {Sub(l, r) : l \in 0 .. (i + 1), r \in 0 .. (i + 1)}
    \cup {Mul(l, r) : l \in 0 .. (i + 1), r \in 0 .. (i + 1)}

DegreeCheckNodes ==
    <<Trace(0, 0, 0, Base), Trace(0, 1, 0, Base), Mul(0, 1), Mul(2, 2)>>
CubicNodes == <<Trace(0, 0, 0, Base), Mul(0, 0), Sub(1, 0), Mul(2, 0)>>

\* the node lists of length k, as functions on 1 .. k
NodeListsOfLen(k) ==
    {f \in [1 .. k -> NodesAt(MaxNodes - 1)] :
        \A i \in 1 .. k : f[i] \in NodesAt(i - 1)}

RECURSIVE NodeVec(_, _)
NodeVec(f, k) == IF k = 0 THEN <<>> ELSE Append(NodeVec(f, k - 1), f[k])

\* a trace cell squared k times: degrees 1, 2, 4, ..., 2^k
RECURSIVE DoublingNodes(_)
DoublingNodes(k) ==
    IF k = 0 THEN <<Trace(0, 0, 0, Base)>>
    ELSE LET s == DoublingNodes(k - 1) IN
         Append(s, Mul(Len(s) - 1, Len(s) - 1))

\* degrees up to 2^(USIZE_BITS - 1) + 2, every sum within usize
HighDegreeNodes ==
    LET s == DoublingNodes(USIZE_BITS - 1) IN
    Append(Append(s, Mul(Len(s) - 1, 0)), Mul(Len(s), 0))

\* the last product has degree 2^USIZE_BITS
OverflowNodes == DoublingNodes(USIZE_BITS)

LongNodeLists ==
    {DegreeCheckNodes, CubicNodes, HighDegreeNodes, OverflowNodes}

\* a raw chip that holds only the nodes ns
NodesOnly(ns) == RawChipMetadata(<<>>, <<>>, <<>>, <<>>, ns, <<>>)

(***************************************************************************)
(* Inputs of the zerofier evaluation.                                      *)
(***************************************************************************)
ExponentIndices == {0, 1, 2, 3, 5}
Exponents ==
    {First(i) : i \in ExponentIndices} \cup {Last(i) : i \in ExponentIndices}
    \cup {Rate(i) : i \in ExponentIndices}
ZLeaves ==
    {ZConstant(c) : c \in {0, 1, 2}} \cup {ZX(e) : e \in Exponents}
    \cup {ZG(e) : e \in Exponents}
ZOperands ==
    {ZConstant(0), ZConstant(1), ZX(First(1)), ZG(First(1)), ZX(Last(1)),
     ZG(Rate(0))}
ZBinaries(L, R) ==
    {ZAdd(l, r) : l \in L, r \in R} \cup {ZSub(l, r) : l \in L, r \in R}
    \cup {ZMul(l, r) : l \in L, r \in R} \cup {ZDiv(l, r) : l \in L, r \in R}
ZQuotients == {ZDiv(l, r) : l \in ZOperands, r \in ZOperands}
ZExprs ==
    ZLeaves \cup ZBinaries(ZOperands, ZOperands)
    \cup ZBinaries(ZQuotients, ZOperands) \cup ZBinaries(ZOperands, ZQuotients)
ZPoints == {<<0, 0>>, <<1, 0>>, <<2, 0>>, <<0, 1>>, <<1, 1>>, <<3, 2>>}
LogHeights == 0 .. TWO_ADICITY

ZCall(expr, x, log_n) ==
    [expr |-> expr, x |-> x, g |-> TwoAdicGenerator(log_n), n |-> Pow2(log_n)]

(***************************************************************************)
(* Node analysis: NodesInfo::new, then get_degrees on the checked list.    *)
(***************************************************************************)
InitNodes ==
    /\ overflow_checks \in BOOLEAN
    /\ pc = "nodes"
    /\ \/ \E k \in 0 .. MaxNodes :
              \E f \in NodeListsOfLen(k) : raw = NodesOnly(NodeVec(f, k))
       \/ \E ns \in LongNodeLists : raw = NodesOnly(ns)
    /\ info = NotRun
    /\ degrees = NotRun
    /\ zf = NotRun
    /\ zeval = NotRun
    /\ chip = NotRun
    /\ nqe = NotRun
    /\ witness = NotRun
    /\ data = NotRun
    /\ challenge = NotRun
    /\ quotient = NotRun
    /\ verdict = NotRun
    /\ validated = NotRun
    /\ dimension = NotRun
    /\ machine = NotRun
    /\ legacy = NotRun

CallNodesInfoNew ==
    /\ pc = "nodes"
    /\ info = NotRun
    /\ info' = NodesInfoNew(raw.nodes)
    /\ UNCHANGED <<overflow_checks, pc, raw, degrees, zf, zeval, chip, nqe,
                   witness, data, challenge, quotient, verdict, validated,
                   dimension, machine, legacy>>

CallGetDegrees ==
    /\ pc = "nodes"
    /\ IsOk(info)
    /\ degrees = NotRun
    /\ degrees' = GetDegrees(raw.nodes)
    /\ UNCHANGED <<overflow_checks, pc, raw, info, zf, zeval, chip, nqe,
                   witness, data, challenge, quotient, verdict, validated,
                   dimension, machine, legacy>>

NextNodes == CallNodesInfoNew \/ CallGetDegrees

SpecNodes == InitNodes /\ [][NextNodes]_vars

(***************************************************************************)
(* Zerofier evaluation: one call of ZerofierExpression::eval.              *)
(***************************************************************************)
InitZerofier ==
    /\ overflow_checks \in BOOLEAN
    /\ pc = "zerofier"
    /\ raw = NotRun
    /\ info = NotRun
    /\ degrees = NotRun
    /\ zf \in {ZCall(e, x, k) : e \in ZExprs, x \in ZPoints, k \in LogHeights}
    /\ zeval = NotRun
    /\ chip = NotRun
    /\ nqe = NotRun
    /\ witness = NotRun
    /\ data = NotRun
    /\ challenge = NotRun
    /\ quotient = NotRun
    /\ verdict = NotRun
    /\ validated = NotRun
    /\ dimension = NotRun
    /\ machine = NotRun
    /\ legacy = NotRun

CallZerofierEval ==
    /\ pc = "zerofier"
    /\ zeval = NotRun
    /\ zeval' = ZEval(zf.expr, zf.x, zf.g, zf.n)
    /\ UNCHANGED <<overflow_checks, pc, raw, info, degrees, zf, chip, nqe,
                   witness, data, challenge, quotient, verdict, validated,
                   dimension, machine, legacy>>

NextZerofier == CallZerofierEval

SpecZerofier == InitZerofier /\ [][NextZerofier]_vars

(***************************************************************************)
(* C7: NodesInfo::new returns InvalidReference(i) for the lowest index i   *)
(* of an Add, Sub or Mul node with lhs_id >= i or rhs_id >= i, and Ok      *)
(* exactly when there is no such node; other nodes never cause it.         *)
(***************************************************************************)
ForwardRefs(nodes) ==
    {i \in 0 .. (Len(nodes) - 1) :
        /\ nodes[i + 1].tag \in {"Add", "Sub", "Mul"}
        /\ (nodes[i + 1].lhs_id >= i \/ nodes[i + 1].rhs_id >= i)}

C7_InvalidReferenceLowest ==
    info # NotRun =>
        LET bad == ForwardRefs(raw.nodes) IN
        /\ IsOk(info) <=> bad = {}
        /\ bad # {} =>
              /\ IsErr(info)
              /\ info.err.kind = "InvalidReference"
              /\ info.err.idx \in bad
              /\ \A j \in bad : info.err.idx <= j

\* a self-reference at index 0 followed by a forward reference: index 0 wins
C7_Witness ==
    /\ info = Err(InvalidReference(0))
    /\ Len(raw.nodes) = 2
    /\ raw.nodes[1].lhs_id = 0 /\ raw.nodes[1].tag = "Mul"
    /\ raw.nodes[2].tag = "Add" /\ raw.nodes[2].rhs_id = 2
    /\ raw.nodes[2].lhs_id = 0

(***************************************************************************)
(* C9: on a topologically valid node list get_degrees returns one degree   *)
(* per node: 0 for Constant and Var, 1 for Trace and Periodic, the maximum *)
(* of the operand degrees for Add and Sub, their sum for Mul;              *)
(* [Trace, Trace, Mul(0,1), Mul(2,2)] gives [1,1,2,4].                     *)
(***************************************************************************)
DegreeRule(nodes, degs, i) ==
    LET node == nodes[i + 1] IN
    CASE node.tag \in {"Constant", "Var"} -> degs[i + 1] = 0
      [] node.tag \in {"Trace", "Periodic"} -> degs[i + 1] = 1
      [] node.tag \in {"Add", "Sub"} ->
            /\ degs[i + 1] >= degs[node.lhs_id + 1]
            /\ degs[i + 1] >= degs[node.rhs_id + 1]
            /\ degs[i + 1] \in {degs[node.lhs_id + 1], degs[node.rhs_id + 1]}
      [] node.tag = "Mul" ->
            degs[i + 1] = degs[node.lhs_id + 1] + degs[node.rhs_id + 1]

C9_DegreesFollowRules ==
    degrees # NotRun =>
        /\ IsOk(degrees)
        /\ Len(degrees.val) = Len(raw.nodes)
        /\ \A i \in 0 .. (Len(raw.nodes) - 1) :
              DegreeRule(raw.nodes, degrees.val, i)
        /\ raw.nodes = DegreeCheckNodes => degrees.val = <<1, 1, 2, 4>>

(***************************************************************************)
(* C5: G(e).eval(x, g, n) returns g raised to e.power(n), lifted into the  *)
(* extension field, and does not depend on x.                              *)
(***************************************************************************)
C5_GEvalIsPowerOfG ==
    (zeval # NotRun /\ zf.expr.tag = "G" /\ IsOk(zeval)) =>
        LET p == ExponentPower(zf.expr.exp, zf.n).val IN
        /\ zeval.val = Some(EFFromBase(FExp(zf.g, p)))
        /\ \A x \in ZPoints : ZEval(zf.expr, x, zf.g, zf.n) = zeval

(***************************************************************************)
(* Chip building: ChipMetadata::try_from on a raw chip, then               *)
(* num_quotient_evals on the built chip.  The raw chips declare one local  *)
(* group of 2, one trace segment of width 2 and one periodic column of     *)
(* length 2; they vary the constraints over a fixed node list, or the node *)
(* list under a few constraint lists.                                      *)
(***************************************************************************)
ZerofierIds == {None, Some(0), Some(1), Some(2)}
Expressions == {Expression(n, z) : n \in 0 .. 2, z \in ZerofierIds}

RECURSIVE ConstraintListsOfLen(_)
ConstraintListsOfLen(k) ==
    IF k = 0 THEN {<<>>}
    ELSE {Append(s, c) : s \in ConstraintListsOfLen(k - 1), c \in Expressions}

ConstraintLists == UNION {ConstraintListsOfLen(k) : k \in 0 .. MaxConstraints}

ConstraintChips ==
    {RawChipMetadata(<<2>>, <<2>>, zs, <<<<1, 2>>>>, ns, cs) :
        zs \in {<<>>, <<ZConstant(1)>>, <<ZConstant(1), ZX(First(1))>>},
        ns \in {<<Constant(1)>>, <<Constant(1), Trace(0, 0, 0, Base)>>},
        cs \in ConstraintLists}

ConstraintsOnNodes(ns) ==
    {<<>>} \cup {<<Expression(i, Some(0))>> : i \in 0 .. (Len(ns) - 1)}
    \cup {<<Expression(0, Some(0)), Expression(i, Some(0))>> :
              i \in 0 .. (Len(ns) - 1)}

DegreeChip(ns, cs) ==
    RawChipMetadata(<<2>>, <<2>>, <<ZConstant(1)>>, <<<<1, 2>>>>, ns, cs)

InitBuild ==
    /\ overflow_checks \in BOOLEAN
    /\ pc = "build"
    /\ \/ raw \in ConstraintChips
       \/ \E k \in 0 .. MaxNodes :
              \E f \in NodeListsOfLen(k) :
                  \E cs \in ConstraintsOnNodes(NodeVec(f, k)) :
                      raw = DegreeChip(NodeVec(f, k), cs)
       \/ \E ns \in LongNodeLists :
              \E cs \in ConstraintsOnNodes(ns) : raw = DegreeChip(ns, cs)
    /\ info = NotRun
    /\ degrees = NotRun
    /\ zf = NotRun
    /\ zeval = NotRun
    /\ chip = NotRun
    /\ nqe = NotRun
    /\ witness = NotRun
    /\ data = NotRun
    /\ challenge = NotRun
    /\ quotient = NotRun
    /\ verdict = NotRun
    /\ validated = NotRun
    /\ dimension = NotRun
    /\ machine = NotRun
    /\ legacy = NotRun

CallTryFrom ==
    /\ chip = NotRun
    /\ raw # NotRun
    /\ chip' = ChipTryFrom(raw)
    /\ UNCHANGED <<overflow_checks, pc, raw, info, degrees, zf, zeval, nqe,
                   witness, data, challenge, quotient, verdict, validated,
                   dimension, machine, legacy>>

CallNumQuotientEvals ==
    /\ IsOk(chip)
    /\ nqe = NotRun
    /\ nqe' = NumQuotientEvals(chip.val)
    /\ UNCHANGED <<overflow_checks, pc, raw, info, degrees, zf, zeval, chip,
                   witness, data, challenge, quotient, verdict, validated,
                   dimension, machine, legacy>>

NextBuild == CallTryFrom \/ CallNumQuotientEvals

SpecBuild == InitBuild /\ [][NextBuild]_vars

(***************************************************************************)
(* C1: try_from returns ChipError::Constraint(idx) for the lowest-index    *)
(* constraint with node_id >= nodes.len(), zerofier_id = None or           *)
(* zerofier_id = Some(z) with z >= zerofiers.len(); every built chip has,  *)
(* for every constraint, node_id in range and a zerofier in range.         *)
(***************************************************************************)
BadConstraints(value) ==
    {i \in 0 .. (Len(value.constraints) - 1) :
        LET c == value.constraints[i + 1] IN
        \/ c.node_id >= Len(value.nodes)
        \/ c.zerofier_id = None
        \/ (c.zerofier_id.some /\ c.zerofier_id.v >= Len(value.zerofiers))}

C1_ConstraintsNeedZerofier ==
    (chip # NotRun /\ raw \in ConstraintChips) =>
        LET bad == BadConstraints(raw) IN
        IF bad = {} THEN IsOk(chip)
        ELSE /\ IsErr(chip)
             /\ chip.err.kind = "Constraint"
             /\ chip.err.idx \in bad
             /\ \A j \in bad : chip.err.idx <= j

(***************************************************************************)
(* C10: for a built chip num_quotient_evals is a power of two, at least 1, *)
(* and is the least power of two that is at least                          *)
(* max(2, max_constraint_degree) - 1, max_constraint_degree being the      *)
(* greatest degrees[node_id] over the constraints (0 without constraints); *)
(* it is 1 when max_constraint_degree is 0 or 1.                           *)
(***************************************************************************)
ConstraintDegrees(c) ==
    {c.degrees[c.constraints[k].node_id + 1] : k \in 1 .. Len(c.constraints)}

GreatestConstraintDegree(c) ==
    IF c.constraints = <<>> THEN 0
    ELSE CHOOSE m \in ConstraintDegrees(c) :
             \A d \in ConstraintDegrees(c) : d <= m

C10_QuotientDegreePad ==
    nqe # NotRun =>
        LET m == GreatestConstraintDegree(chip.val)
            target == (IF m >= 2 THEN m ELSE 2) - 1
        IN  /\ IsOk(nqe)
            /\ nqe.val >= 1
            /\ \E k \in 0 .. USIZE_BITS : nqe.val = Pow2(k)
            /\ nqe.val >= target
            /\ \A k \in 0 .. USIZE_BITS : Pow2(k) >= target => nqe.val <= Pow2(k)
            /\ m \in {0, 1} => nqe.val = 1

(***************************************************************************)
(* Witness data handed to ChipData::new.  Values are position-dependent    *)
(* fills, so that a read at a wrong index changes the value read.          *)
(***************************************************************************)
LocalFill(shape, s) ==
    [g \in 1 .. Len(shape) |-> [o \in 1 .. shape[g] |-> (s + 2 * g + o) % P]]

\* shape[segment][row] is the width of the row
TraceFill(shape, s) ==
    [seg \in 1 .. Len(shape) |->
        [row \in 1 .. Len(shape[seg]) |->
            [col \in 1 .. shape[seg][row] |->
                <<(s + seg + 2 * row + col) % P, (s + row + col) % P>>]]]

QuotientFill(len, a, b, c) ==
    [i \in 1 .. len |->
        IF i = 1 THEN a ELSE IF i = 2 THEN b ELSE IF i = 3 THEN c ELSE EFZero]

Witness(local_variables, trace_evals, quotient_evals, log_height) ==
    [local_variables |-> local_variables, trace_evals |-> trace_evals,
     quotient_evals |-> quotient_evals, log_height |-> log_height]

Widths == {1, 2}

RECURSIVE RowWidthsOfLen(_)
RowWidthsOfLen(k) ==
    IF k = 0 THEN {<<>>}
    ELSE {Append(s, w) : s \in RowWidthsOfLen(k - 1), w \in Widths}

SegmentShapes == UNION {RowWidthsOfLen(k) : k \in 0 .. MaxRows}
TraceShapes ==
    {<<>>} \cup {<<s>> : s \in SegmentShapes}
    \cup {<<s, t>> : s \in SegmentShapes, t \in SegmentShapes}
LocalShapes ==
    {<<>>} \cup {<<a>> : a \in Widths} \cup {<<a, b>> : a \in Widths, b \in Widths}
QuotientLens == {0, D, 2 * D}

\* every shape, one fill
ShapeWitnesses ==
    {Witness(LocalFill(ls, 1), TraceFill(ts, 1),
             QuotientFill(ql, EFOne, EFZero, EFZero), lh) :
        ls \in LocalShapes, ts \in TraceShapes, ql \in QuotientLens,
        lh \in LogHeights}

\* the declared shape of chip c, several fills of the quotient
DeclaredTraceShape(c) ==
    [seg \in 1 .. Len(c.trace_window_dimensions) |->
        [row \in 1 .. c.trace_window_dimensions[seg].height |->
            c.trace_window_dimensions[seg].width]]

QuotientHeads == {EFZero, EFOne, <<2, 1>>}
QuotientTails == {EFZero, EFOne}

WitnessesFor(c) ==
    {Witness(LocalFill(c.num_local_variables, 1),
             TraceFill(DeclaredTraceShape(c), 1),
             QuotientFill(NumQuotientEvals(c).val * D, a, b, b), lh) :
        a \in QuotientHeads, b \in QuotientTails, lh \in LogHeights}

Zetas == {<<0, 0>>, <<1, 0>>, <<2, 1>>}
Alphas == {<<1, 0>>, <<2, 0>>, <<1, 1>>}
\* the machine's global variables: one group of 2
GlobalVariables == {<<<<1, 2>>>>, <<<<3, 4>>>>}

(***************************************************************************)
(* Raw chips for the shape check: three declarations of local groups       *)
(* times three of trace segments, periodic columns and quotient size.      *)
(***************************************************************************)
ShapeChips ==
    {RawChipMetadata(nlv, t[1], <<ZConstant(1)>>, t[2], t[3], t[4]) :
        nlv \in {<<>>, <<2>>, <<1, 2>>},
        t \in {<< <<>>, <<>>, <<Constant(1)>>, <<Expression(0, Some(0))>> >>,
               << <<2>>, <<<<1, 2>>>>,
                  <<Trace(0, 0, 1, Base), Mul(0, 0), Mul(1, 0)>>,
                  <<Expression(2, Some(0))>> >>,
               << <<1, 2>>, <<<<1>>, <<1, 2, 3, 4>>>>,
                  <<Trace(1, 0, 0, Ext)>>, <<Expression(0, Some(0))>> >>,
               << <<2>>, <<<<1, 2>>>>, HighDegreeNodes,
                  <<Expression(Len(HighDegreeNodes) - 1, Some(0))>> >>}}

(***************************************************************************)
(* Raw chips for the quotient check.  EvalChips vary the node read (trace  *)
(* cell, local or global variable, periodic column, with offsets 0, 1 and  *)
(* usize::MAX) under one constraint; QuotientChips vary the constraints    *)
(* and the zerofiers over three node lists.                                *)
(***************************************************************************)
Offsets == {0, 1, USIZE_MAX}
FieldTypes == {Base, Ext}

ReadNodes ==
    {Constant(2), Periodic(0), Var(Global, 0, 0, Base), Var(Global, 0, 0, Ext)}
    \cup {Trace(0, c, r, ft) : c \in Offsets, r \in Offsets, ft \in FieldTypes}
    \cup {Var(Local(0), 0, o, ft) : o \in Offsets, ft \in FieldTypes}
SecondNodes == {Mul(0, 0), Sub(0, 0), Trace(0, 0, 1, Base), Periodic(0)}

EvalNodeLists ==
    {<<a>> : a \in ReadNodes} \cup {<<a, b>> : a \in ReadNodes, b \in SecondNodes}

EvalChips ==
    {RawChipMetadata(<<2>>, <<2>>, <<ZX(First(1))>>, <<<<1, 2>>>>, ns,
                     <<Expression(Len(ns) - 1, Some(0))>>) :
        ns \in EvalNodeLists}

QuotientNodeLists ==
    {<<Constant(1), Constant(2)>>,
     <<Var(Local(0), 0, 0, Ext), Trace(0, 0, 0, Base)>>,
     <<Trace(0, 0, 0, Base), Mul(0, 0), Mul(1, 0)>>}

QuotientZerofiers ==
    {<<ZConstant(1), ZConstant(2)>>,
     <<ZConstant(1), ZConstant(0)>>,
     <<ZX(First(1)), ZDiv(ZConstant(1), ZX(First(1)))>>,
     <<ZSub(ZX(Rate(1)), ZConstant(1)), ZConstant(1)>>}

QuotientExpressions(ns) ==
    {Expression(0, Some(0)), Expression(Len(ns) - 1, Some(0)),
     Expression(Len(ns) - 1, Some(1)), Expression(0, None)}

QuotientConstraints(ns) ==
    {<<>>} \cup {<<c>> : c \in QuotientExpressions(ns)}
    \cup {<<c, e>> : c \in QuotientExpressions(ns), e \in QuotientExpressions(ns)}

QuotientChips ==
    UNION {{RawChipMetadata(<<2>>, <<2>>, zs, <<>>, ns, cs) :
                zs \in QuotientZerofiers, cs \in QuotientConstraints(ns)} :
              ns \in QuotientNodeLists}

(***************************************************************************)
(* Verification of one chip: try_from, ChipData::new, check_quotient.      *)
(***************************************************************************)
InitChip(chips) ==
    /\ overflow_checks \in BOOLEAN
    /\ pc = "verify"
    /\ raw \in chips
    /\ info = NotRun
    /\ degrees = NotRun
    /\ zf = NotRun
    /\ zeval = NotRun
    /\ chip = NotRun
    /\ nqe = NotRun
    /\ witness = NotRun
    /\ data = NotRun
    /\ challenge = NotRun
    /\ quotient = NotRun
    /\ verdict = NotRun
    /\ validated = NotRun
    /\ dimension = NotRun
    /\ machine = NotRun
    /\ legacy = NotRun

NewChipData(witnesses) ==
    /\ IsOk(chip)
    /\ data = NotRun
    /\ \E w \in witnesses :
          /\ witness' = w
          /\ data' = ChipDataNew(chip.val, w.local_variables, w.trace_evals,
                                 w.quotient_evals, w.log_height)
    /\ UNCHANGED <<overflow_checks, pc, raw, info, degrees, zf, zeval, chip,
                   nqe, challenge, quotient, verdict, validated, dimension,
                   machine, legacy>>

CallChipDataNew == NewChipData(WitnessesFor(chip.val))

CallChipDataNewAnyShape == NewChipData(ShapeWitnesses)

CallCheckQuotient ==
    /\ IsOk(data)
    /\ verdict = NotRun
    /\ \E gv \in GlobalVariables, zeta \in Zetas, alpha \in Alphas :
          LET r == CheckQuotient(data.val, gv, zeta, alpha) IN
          /\ challenge' = [global_variables |-> gv, zeta |-> zeta,
                           alpha |-> alpha]
          /\ quotient' = r.quotient
          /\ verdict' = r.result
    /\ UNCHANGED <<overflow_checks, pc, raw, info, degrees, zf, zeval, chip,
                   nqe, witness, data, validated, dimension, machine, legacy>>

\* chips over periodic columns of several contents and lengths
PeriodicColumns == {<<<<3, 4>>>>, <<<<0, 0>>>>, <<<<1>>, <<2, 3>>>>}

PeriodicNodeLists ==
    {<<Periodic(0)>>,
     <<Periodic(0), Trace(0, 0, 0, Base), Add(0, 1)>>,
     <<Periodic(0), Periodic(0), Mul(0, 1)>>}

PeriodicChips ==
    {RawChipMetadata(<<2>>, <<2>>, <<ZX(First(1))>>, pe, ns, <<Expression(Len(ns) - 1, Some(0))>>) :
        pe \in PeriodicColumns, ns \in PeriodicNodeLists}
    \cup {RawChipMetadata(<<2>>, <<2>>, <<ZX(First(1))>>, <<<<1>>, <<2, 3>>>>, <<Periodic(1), Periodic(0), Sub(0, 1)>>, <<Expression(2, Some(0))>>)}

Init == InitChip(EvalChips \cup QuotientChips \cup PeriodicChips)

Next == CallTryFrom \/ CallChipDataNew \/ CallCheckQuotient

Spec == Init /\ [][Next]_vars

InitShape == InitChip(ShapeChips)

NextShape == CallTryFrom \/ CallChipDataNewAnyShape

SpecShape == InitShape /\ [][NextShape]_vars


(***************************************************************************)
(* C2: ChipData::new returns Ok exactly when the local groups, the trace   *)
(* segments, rows and widths, the number of quotient evaluations and the   *)
(* periodic column lengths all match the chip; when it rejects, the error  *)
(* is that of the first check that fails, in the order the checks run      *)
(* (periodic lengths, group count, group lengths, segment count, segments  *)
(* in order with height before rows, quotient length), with the lowest     *)
(* index and the actual and expected counts.                               *)
(***************************************************************************)
Least(S) == CHOOSE i \in S : \A j \in S : i <= j

LongColumns(c, w) ==
    {i \in 1 .. Len(c.periodic) : Len(c.periodic[i]) > Pow2(w.log_height)}
WrongGroups(c, w) ==
    {g \in 1 .. Len(c.num_local_variables) :
        Len(w.local_variables[g]) # c.num_local_variables[g]}
WrongRows(c, w, seg) ==
    {r \in 1 .. Len(w.trace_evals[seg]) :
        Len(w.trace_evals[seg][r]) # c.trace_window_dimensions[seg].width}
WrongSegments(c, w) ==
    {seg \in 1 .. Len(c.trace_window_dimensions) :
        \/ Len(w.trace_evals[seg]) # c.trace_window_dimensions[seg].height
        \/ WrongRows(c, w, seg) # {}}

ShapeVerdict(c, w, expected_quotient_evals) ==
    IF LongColumns(c, w) # {}
    THEN LET i == Least(LongColumns(c, w)) IN
         Err(MinHeight(i - 1, Len(c.periodic[i]), Pow2(w.log_height)))
    ELSE IF Len(w.local_variables) # Len(c.num_local_variables)
    THEN Err(NumLocalVariableGroups(Len(w.local_variables),
                                    Len(c.num_local_variables)))
    ELSE IF WrongGroups(c, w) # {}
    THEN LET g == Least(WrongGroups(c, w)) IN
         Err(NumLocalVariables(g - 1, Len(w.local_variables[g]),
                               c.num_local_variables[g]))
    ELSE IF Len(w.trace_evals) # Len(c.trace_window_dimensions)
    THEN Err(NumTraces(Len(w.trace_evals), Len(c.trace_window_dimensions)))
    ELSE IF WrongSegments(c, w) # {}
    THEN LET seg == Least(WrongSegments(c, w))
             dim == c.trace_window_dimensions[seg]
         IN  IF Len(w.trace_evals[seg]) # dim.height
             THEN Err(SegmentHeight(seg - 1, Len(w.trace_evals[seg]),
                                    dim.height))
             ELSE LET r == Least(WrongRows(c, w, seg)) IN
                  Err(SegmentRowWidth(seg - 1, r - 1,
                                      Len(w.trace_evals[seg][r]), dim.width))
    ELSE IF Len(w.quotient_evals) # expected_quotient_evals
    THEN Err(NumQuotientEvalsErr(Len(w.quotient_evals),
                                 expected_quotient_evals))
    ELSE Ok(ChipData(c, w.local_variables, w.trace_evals, w.quotient_evals,
                     w.log_height))

C2_ShapeCheckComplete ==
    data # NotRun =>
        /\ ~IsPanic(data)
        /\ LET n == NumQuotientEvals(chip.val) IN
           IsOk(n) =>
              /\ data = ShapeVerdict(chip.val, witness, n.val * D)
              /\ IsOk(data) <=>
                    /\ Len(witness.local_variables)
                          = Len(chip.val.num_local_variables)
                    /\ WrongGroups(chip.val, witness) = {}
                    /\ Len(witness.trace_evals)
                          = Len(chip.val.trace_window_dimensions)
                    /\ WrongSegments(chip.val, witness) = {}
                    /\ Len(witness.quotient_evals) = n.val * D
                    /\ LongColumns(chip.val, witness) = {}

(***************************************************************************)
(* The terms of the quotient identity, by their definitions.               *)
(***************************************************************************)
\* node evaluations and zerofier evaluations of a check_quotient call
CallEvals ==
    EvalsLoop(data.val, challenge.global_variables,
              PeriodicEvals(data.val.chip.periodic), <<>>)
ZerofierEvalAt(idx) ==
    ZEval(data.val.chip.zerofiers[idx + 1], challenge.zeta,
          TwoAdicGenerator(data.val.log_height), Pow2(data.val.log_height))

ZerofierUndefined(idx) ==
    LET e == ZerofierEvalAt(idx) IN
    IsOk(e) /\ (e.val = None \/ e.val = Some(EFZero))

ZerofiersInvertible ==
    \A idx \in 0 .. (Len(data.val.chip.zerofiers) - 1) :
        LET e == ZerofierEvalAt(idx) IN
        IsOk(e) /\ e.val.some /\ e.val.v # EFZero

\* node evaluation / zerofier evaluation of the constraint at 1-based k
ConstraintTerm(k) ==
    LET c == data.val.chip.constraints[k] IN
    EFMul(CallEvals.val[c.node_id + 1],
          EFTryInverse(ZerofierEvalAt(c.zerofier_id.v).val.v).v)

RECURSIVE EFSum(_, _)
EFSum(f, k) == IF k = 0 THEN EFZero ELSE EFAdd(f[k], EFSum(f, k - 1))

\* sum over the constraints of alpha^weight(k) * term(k)
WeightedSum(first_weight, step) ==
    LET len == Len(data.val.chip.constraints) IN
    EFSum([k \in 1 .. len |->
              EFMul(EFExpU64(challenge.alpha, first_weight + step * (k - 1)),
                    ConstraintTerm(k))], len)

\* sum over i of q_i * (zeta^(2^log_height))^i, q_i the i-th chunk from the start
DirectQuotient ==
    LET chunks == QuotientChunks(data.val.quotient_evals)
        z == EFExpU64(challenge.zeta, Pow2(data.val.log_height))
    IN  EFSum([i \in 1 .. Len(chunks) |-> EFMul(chunks[i], EFExpU64(z, i - 1))],
              Len(chunks))

(***************************************************************************)
(* C3: when every zerofier evaluates to an invertible value,               *)
(* check_quotient returns Ok if the alpha-combination of the constraints'  *)
(* node evaluations over their zerofier evaluations equals the direct      *)
(* evaluation of the claimed quotient, and InvalidQuotient in every other  *)
(* case; Constant(1) over Constant(1) accepts one and rejects zero.        *)
(***************************************************************************)
C3_QuotientIdentityDecides ==
    (verdict # NotRun /\ ZerofiersInvertible) =>
        /\ verdict \in {Ok(TRUE), Err(InvalidQuotient)}
        /\ verdict = Ok(TRUE) <=> WeightedSum(0, 1) = DirectQuotient

(***************************************************************************)
(* C4: the combined constraint value of check_quotient is the sum of       *)
(* alpha^k * (node evaluation / zerofier evaluation) of the k-th           *)
(* constraint.  As claimed, k counts from the end of the list (the last    *)
(* constraint has weight alpha^0); as amended, k counts from the start     *)
(* (the first constraint has weight alpha^0, the last the highest power).  *)
(***************************************************************************)
C4_WeightsCountFromEnd ==
    IsOk(quotient) =>
        quotient.val = WeightedSum(Len(data.val.chip.constraints) - 1, -1)

C4_WeightsCountFromStart ==
    IsOk(quotient) => quotient.val = WeightedSum(0, 1)

\* two constraints with different terms under an alpha other than 0 and 1
C4_Witness ==
    /\ IsOk(quotient)
    /\ Len(data.val.chip.constraints) = 2
    /\ ConstraintTerm(1) # ConstraintTerm(2)
    /\ challenge.alpha = <<1, 1>>
    /\ quotient.val # WeightedSum(1, -1)

(***************************************************************************)
(* C6: check_quotient returns UndefinedZerofierEval(idx) for the lowest    *)
(* index idx of the zerofier array whose evaluation is None or zero,       *)
(* whether or not a constraint references it, and never InvalidQuotient    *)
(* in that case.                                                           *)
(***************************************************************************)
UndefinedZerofiers ==
    {idx \in 0 .. (Len(data.val.chip.zerofiers) - 1) : ZerofierUndefined(idx)}

C6_UndefinedZerofierReported ==
    (verdict # NotRun /\ UndefinedZerofiers # {}) =>
        verdict = Err(UndefinedZerofierEval(Least(UndefinedZerofiers)))

(***************************************************************************)
(* C8: for a built chip and data accepted by ChipData::new, the node       *)
(* evaluation loop of check_quotient reads no prev_evals entry that is not *)
(* yet computed and no index outside local_variables, trace_evals or       *)
(* periodic_evals, whatever offsets the nodes carry.                       *)
(***************************************************************************)
C8_NodeReadsInRange ==
    \A what \in {"prev_evals", "local_variables", "trace_evals",
                 "periodic_evals"} :
        verdict # OutOfBounds(what)

(***************************************************************************)
(* Variable validation: the three validators of NodesInfo on lists of one  *)
(* or two nodes, and the chip build on the same nodes.  Offsets include    *)
(* usize::MAX, where offset + element_width leaves usize.                  *)
(***************************************************************************)
VarScopes == {Local(0), Local(1), Global}
VarNodes ==
    {Var(sc, gr, of, ft) :
        sc \in VarScopes, gr \in {0, 1}, of \in Offsets, ft \in FieldTypes}
    \cup {Constant(1)}

\* VariableGroupInfo values: the sizes of the groups of one chip
GroupInfos == {<<>>, <<D - 1>>, <<D>>, <<1, 3>>}
SharedInfos == {<<>>, <<<<D>>>>, <<<<1>>, <<D, 1>>>>}

Validated(call, arg, result) ==
    [call |-> call, arg |-> arg, result |-> result]

InitVariables ==
    /\ overflow_checks \in BOOLEAN
    /\ pc = "variables"
    /\ \E a \in VarNodes, nlv \in GroupInfos :
          \/ raw = RawChipMetadata(nlv, <<>>, <<>>, <<>>, <<a>>, <<>>)
          \/ \E b \in VarNodes :
                raw = RawChipMetadata(nlv, <<>>, <<>>, <<>>, <<a, b>>, <<>>)
    /\ info = NotRun
    /\ degrees = NotRun
    /\ zf = NotRun
    /\ zeval = NotRun
    /\ chip = NotRun
    /\ nqe = NotRun
    /\ witness = NotRun
    /\ data = NotRun
    /\ challenge = NotRun
    /\ quotient = NotRun
    /\ verdict = NotRun
    /\ validated = NotRun
    /\ dimension = NotRun
    /\ machine = NotRun
    /\ legacy = NotRun

CallValidateSharedVariables ==
    /\ pc = "variables"
    /\ validated = NotRun
    /\ \E num_shared_vars \in SharedInfos :
          validated' = Validated("validate_shared_variables", num_shared_vars,
                           ValidateSharedVariables(raw.nodes, num_shared_vars))
    /\ UNCHANGED <<overflow_checks, pc, raw, info, degrees, zf, zeval, chip,
                   nqe, witness, data, challenge, quotient, verdict,
                   dimension, machine, legacy>>

CallValidateLocalVariables ==
    /\ pc = "variables"
    /\ validated = NotRun
    /\ validated' = Validated("validate_local_variables",
                        <<raw.num_local_variables>>,
                        ValidateLocalVariables(raw.nodes,
                                               raw.num_local_variables))
    /\ UNCHANGED <<overflow_checks, pc, raw, info, degrees, zf, zeval, chip,
                   nqe, witness, data, challenge, quotient, verdict,
                   dimension, machine, legacy>>

CallValidateGlobalVariables ==
    /\ pc = "variables"
    /\ validated = NotRun
    /\ \E num_variables \in GroupInfos :
          validated' = Validated("validate_global_variables", num_variables,
                           ValidateGlobalVariables(raw.nodes, num_variables))
    /\ UNCHANGED <<overflow_checks, pc, raw, info, degrees, zf, zeval, chip,
                   nqe, witness, data, challenge, quotient, verdict,
                   dimension, machine, legacy>>

NextVariables ==
    \/ CallValidateSharedVariables
    \/ CallValidateLocalVariables
    \/ CallValidateGlobalVariables
    \/ CallTryFrom

SpecVariables == InitVariables /\ [][NextVariables]_vars

(***************************************************************************)
(* C11: each variable validator returns Variable(i) for the lowest-index   *)
(* Var node of its scope whose chip has no entry, whose group does not     *)
(* exist or whose element does not fit (offset + (1 if Base else D) >      *)
(* group size, for every offset), and Ok otherwise; every Local Var of a   *)
(* built chip has chip_id 0; a chip with num_local_variables = [D - 1] and *)
(* one Ext Var at group 0, offset 0 is rejected with Variable(0).          *)
(***************************************************************************)
\* the element of node does not fit a group of the sizes groups
MisfitsGroups(node, groups) ==
    \/ node.group >= Len(groups)
    \/ node.offset + (IF node.field_type = Base THEN 1 ELSE D)
          > groups[node.group + 1]

BadVariables(nodes, call, arg) ==
    {i \in 0 .. (Len(nodes) - 1) :
        LET node == nodes[i + 1] IN
        /\ node.tag = "Var"
        /\ IF call = "validate_global_variables"
           THEN node.scope = Global /\ MisfitsGroups(node, arg)
           ELSE /\ node.scope # Global
                /\ \/ node.scope.chip_id >= Len(arg)
                   \/ MisfitsGroups(node, arg[node.scope.chip_id + 1])}

C11_VariableValidators ==
    /\ validated # NotRun =>
          LET bad == BadVariables(raw.nodes, validated.call, validated.arg)
          IN  validated.result =
                  IF bad = {} THEN Ok(TRUE) ELSE Err(VariableErr(Least(bad)))
    /\ IsOk(chip) =>
          \A i \in 1 .. Len(chip.val.nodes) :
              LET node == chip.val.nodes[i] IN
              (node.tag = "Var" /\ node.scope # Global)
                  => node.scope.chip_id = 0
    /\ (/\ chip # NotRun
        /\ raw.num_local_variables = <<D - 1>>
        /\ raw.nodes = <<Var(Local(0), 0, 0, Ext)>>)
          => chip = Err(NodeError(VariableErr(0)))

(***************************************************************************)
(* Machine building: MachineMetadata::try_from (machine_metadata.rs).      *)
(***************************************************************************)
RawMachineMetadata(num_global_variables, chips, nodes, constraints) ==
    [num_global_variables |-> num_global_variables, chips |-> chips,
     nodes |-> nodes, constraints |-> constraints]

MachineMetadata(num_global_variables, chips, nodes, constraints) ==
    [num_global_variables |-> num_global_variables, chips |-> chips,
     nodes |-> nodes, constraints |-> constraints]

\* MachineError
MachineChipErr(chip_id, err) == [kind |-> "Chip", idx |-> chip_id, err |-> err]
MachineNodesErr(err) == [kind |-> "Nodes", err |-> err]
MachineConstraintErr(constraint_idx) ==
    [kind |-> "Constraint", idx |-> constraint_idx]

\* the ? on a NodeError result: From<NodeError> for MachineError
LiftMachineNodes(r) == IF IsErr(r) THEN Err(MachineNodesErr(r.err)) ELSE r

\* the second half of the closure, on the built chip and the result of
\* its validate_global_variables
ChipGlobalsChecked(chip_id, built, globals) ==
    IF IsErr(globals)
    THEN Err(MachineChipErr(chip_id, NodeError(globals.err)))
    ELSE IF IsPanic(globals) THEN globals
    ELSE built

\* the closure from the result of the chip's try_into on
MachineChipBuilt(chip_id, built, num_global_variables) ==
    IF IsErr(built) THEN Err(MachineChipErr(chip_id, built.err))
    ELSE IF IsPanic(built) THEN built
    ELSE ChipGlobalsChecked(
             chip_id, built,
             ValidateGlobalVariables(built.val.nodes, num_global_variables))

\* the closure mapped over the raw chips, for the chip at chip_id
BuildMachineChip(chip_id, raw_chip, num_global_variables) ==
    MachineChipBuilt(chip_id, ChipTryFrom(raw_chip), num_global_variables)

\* collect::<Result<Vec<_>, _>>: stops at the first chip that fails
RECURSIVE MachineChipsLoop(_, _, _)
RECURSIVE MachineChipsCollect(_, _, _, _)
MachineChipsCollect(raw_chips, num_global_variables, built, c) ==
    IF ~IsOk(c) THEN c
    ELSE MachineChipsLoop(raw_chips, num_global_variables,
                          Append(built, c.val))

MachineChipsLoop(raw_chips, num_global_variables, built) ==
    IF Len(built) >= Len(raw_chips) THEN Ok(built)
    ELSE MachineChipsCollect(
             raw_chips, num_global_variables, built,
             BuildMachineChip(Len(built), raw_chips[Len(built) + 1],
                              num_global_variables))

\* the condition of the machine constraint loop, without the zerofier test
MachineConstraintOffendsNodeOnly(constraint, num_nodes) ==
    constraint.node_id >= num_nodes

\* the condition of the machine constraint loop
MachineConstraintOffends(constraint, num_nodes) ==
    constraint.node_id >= num_nodes \/ constraint.zerofier_id.some

RECURSIVE MachineConstraintLoop(_, _, _)
MachineConstraintLoop(constraints, num_nodes, constraint_idx) ==
    IF constraint_idx >= Len(constraints) THEN Ok(TRUE)
    ELSE IF MachineConstraintOffends(constraints[constraint_idx + 1],
                                     num_nodes)
         THEN Err(MachineConstraintErr(constraint_idx))
         ELSE MachineConstraintLoop(constraints, num_nodes,
                                    constraint_idx + 1)

\* the checks of the machine-level nodes that run before the chips
MachineNodeChecks(value) ==
    LET machine_nodes_info == LiftMachineNodes(NodesInfoNew(value.nodes)) IN
    IF ~IsOk(machine_nodes_info) THEN machine_nodes_info ELSE
    LET periodic_refs == LiftMachineNodes(ValidatePeriodic(value.nodes, 0)) IN
    IF ~IsOk(periodic_refs) THEN periodic_refs ELSE
    LET no_trace == LiftMachineNodes(GetDimension(value.nodes, <<>>)) IN
    IF ~IsOk(no_trace) THEN no_trace ELSE
    LET globals == LiftMachineNodes(
            ValidateGlobalVariables(value.nodes, value.num_global_variables))
    IN  IF ~IsOk(globals) THEN globals ELSE Ok(TRUE)

\* validate_shared_variables on the machine nodes against the built chips
MachineSharedChecked(value, chips) ==
    IF ~IsOk(chips) THEN chips
    ELSE LET shared_variables ==
                 [c \in 1 .. Len(chips.val) |->
                     chips.val[c].num_local_variables]
             shared == LiftMachineNodes(
                 ValidateSharedVariables(value.nodes, shared_variables))
         IN  IF ~IsOk(shared) THEN shared ELSE chips

\* everything of try_from that runs before the constraint loop
MachineChips(value) ==
    IF ~IsOk(MachineNodeChecks(value)) THEN MachineNodeChecks(value)
    ELSE MachineSharedChecked(
             value,
             MachineChipsLoop(value.chips, value.num_global_variables, <<>>))

\* the constraint loop and the construction of Self, on the built chips
MachineConstraintsChecked(value, chips) ==
    IF ~IsOk(chips) THEN chips ELSE
    LET checked == MachineConstraintLoop(value.constraints,
                                         Len(value.nodes), 0) IN
    IF ~IsOk(checked) THEN checked
    ELSE Ok(MachineMetadata(value.num_global_variables, chips.val,
                            value.nodes, value.constraints))

MachineTryFrom(value) == MachineConstraintsChecked(value, MachineChips(value))

(***************************************************************************)
(* Raw machines: chips that build, chips whose own build fails, chips      *)
(* whose Global variables fit or do not fit the global groups, and         *)
(* machine-level node lists that pass or fail each machine-level check.    *)
(***************************************************************************)
MachineGlobals == {<<>>, <<D>>}

MachineRawChips ==
    {RawChipMetadata(<<D>>, <<>>, <<>>, <<>>, <<Var(Local(0), 0, 0, Ext)>>, <<Expression(0, None)>>),
     RawChipMetadata(<<>>, <<>>, <<>>, <<>>, <<Var(Local(0), 0, 0, Base)>>, <<>>),
     RawChipMetadata(<<>>, <<>>, <<>>, <<>>, <<Constant(1)>>, <<Expression(1, None)>>),
     RawChipMetadata(<<>>, <<>>, <<>>, <<>>, <<Var(Global, 0, 0, Ext)>>, <<>>),
     RawChipMetadata(<<>>, <<>>, <<>>, <<>>, <<Constant(1), Var(Global, 0, 1, Ext)>>, <<>>),
     RawChipMetadata(<<>>, <<>>, <<>>, <<>>, <<Var(Global, 1, 0, Base)>>, <<>>),
     RawChipMetadata(<<>>, <<>>, <<>>, <<>>, <<Var(Global, 0, USIZE_MAX, Base)>>, <<>>)}

MachineChipLists ==
    {<<>>} \cup {<<a>> : a \in MachineRawChips}
           \cup {<<a, b>> : a, b \in MachineRawChips}

MachineNodeLists ==
    {<<>>,
     <<Constant(1)>>,
     <<Constant(1), Constant(2), Add(0, 1)>>,
     <<Var(Global, 0, 0, Base)>>,
     <<Constant(1), Var(Global, 0, 1, Ext)>>,
     <<Var(Global, 0, USIZE_MAX, Base)>>,
     <<Var(Local(0), 0, 0, Base)>>,
     <<Var(Local(1), 0, 0, Ext)>>,
     <<Periodic(0)>>,
     <<Trace(0, 0, 0, Base)>>,
     <<Add(0, 0)>>}

MachineExpressions == {Expression(n, z) : n \in 0 .. 2, z \in {None, Some(0)}}

MachineConstraintLists ==
    {<<>>} \cup {<<a>> : a \in MachineExpressions}
           \cup {<<a, b>> : a, b \in MachineExpressions}

InitMachine ==
    /\ overflow_checks \in BOOLEAN
    /\ pc = "machine"
    /\ \E num_global_variables \in MachineGlobals, chips \in MachineChipLists,
          nodes \in MachineNodeLists, constraints \in MachineConstraintLists :
          raw = RawMachineMetadata(num_global_variables, chips, nodes,
                                   constraints)
    /\ info = NotRun
    /\ degrees = NotRun
    /\ zf = NotRun
    /\ zeval = NotRun
    /\ chip = NotRun
    /\ nqe = NotRun
    /\ witness = NotRun
    /\ data = NotRun
    /\ challenge = NotRun
    /\ quotient = NotRun
    /\ verdict = NotRun
    /\ validated = NotRun
    /\ dimension = NotRun
    /\ machine = NotRun
    /\ legacy = NotRun

\* MachineMetadata::try_from(raw)
CallMachineTryFrom ==
    /\ pc = "machine"
    /\ machine = NotRun
    /\ machine' = MachineTryFrom(raw)
    /\ UNCHANGED <<overflow_checks, pc, raw, info, degrees, zf, zeval, chip,
                   nqe, witness, data, challenge, quotient, verdict,
                   validated, dimension, legacy>>

NextMachine == CallMachineTryFrom

SpecMachine == InitMachine /\ [][NextMachine]_vars

(***************************************************************************)
(* C12: when the build of a machine reaches its constraint loop (every     *)
(* earlier pass returned Ok), it returns Constraint(idx) for the lowest    *)
(* machine constraint whose node_id is >= nodes.len() or whose zerofier_id *)
(* is Some, and builds the machine when there is none; it returns          *)
(* Constraint(idx) in no other case; every built machine has only machine  *)
(* constraints with zerofier_id = None and node_id in range.               *)
(***************************************************************************)
BadMachineConstraints(value) ==
    {i \in 0 .. (Len(value.constraints) - 1) :
        \/ value.constraints[i + 1].node_id >= Len(value.nodes)
        \/ value.constraints[i + 1].zerofier_id # None}

C12_MachineConstraints ==
    machine # NotRun =>
        LET bad == BadMachineConstraints(raw) IN
        /\ IsOk(MachineChips(raw)) =>
              IF bad = {} THEN IsOk(machine)
              ELSE machine = Err(MachineConstraintErr(Least(bad)))
        /\ (IsErr(machine) /\ machine.err.kind = "Constraint") =>
              (bad # {} /\ machine.err.idx = Least(bad))
        /\ IsOk(machine) =>
              /\ machine.val.constraints = raw.constraints
              /\ \A i \in 1 .. Len(machine.val.constraints) :
                    /\ machine.val.constraints[i].zerofier_id = None
                    /\ machine.val.constraints[i].node_id
                          < Len(machine.val.nodes)

\* a machine with a chip is rejected for its second constraint, which
\* carries a zerofier on a node that exists
C12_Witness ==
    /\ machine = Err(MachineConstraintErr(1))
    /\ Len(raw.chips) > 0
    /\ raw.constraints[2].zerofier_id = Some(0)
    /\ raw.constraints[2].node_id < Len(raw.nodes)

(***************************************************************************)
(* C13: for a raw machine whose machine-level nodes pass the topological,  *)
(* periodic, trace and global-variable checks, the build returns           *)
(* Chip(c, e) for the lowest chip c whose own build fails (e its           *)
(* ChipError) or that has a Global Var node whose group is missing or too  *)
(* small (e = NodeError(Variable(i)), i the lowest such node); in every    *)
(* built machine every Global Var node of every chip and of the machine    *)
(* level targets an existing global group within its size.                 *)
(***************************************************************************)
FailingChips(value) ==
    {c \in 0 .. (Len(value.chips) - 1) :
        \/ IsErr(ChipTryFrom(value.chips[c + 1]))
        \/ BadVariables(value.chips[c + 1].nodes, "validate_global_variables",
                        value.num_global_variables) # {}}

ChipFailure(value, c) ==
    LET built == ChipTryFrom(value.chips[c + 1])
        bad == BadVariables(value.chips[c + 1].nodes,
                            "validate_global_variables",
                            value.num_global_variables)
    IN  IF IsErr(built) THEN built.err
        ELSE NodeError(VariableErr(Least(bad)))

GlobalsFit(nodes, num_global_variables) ==
    BadVariables(nodes, "validate_global_variables", num_global_variables) = {}

C13_ChipGlobalsChecked ==
    /\ (machine # NotRun /\ IsOk(MachineNodeChecks(raw))) =>
          LET failing == FailingChips(raw) IN
          failing # {} =>
              machine = Err(MachineChipErr(Least(failing),
                                           ChipFailure(raw, Least(failing))))
    /\ IsOk(machine) =>
          /\ GlobalsFit(machine.val.nodes, machine.val.num_global_variables)
          /\ \A c \in 1 .. Len(machine.val.chips) :
                GlobalsFit(machine.val.chips[c].nodes,
                           machine.val.num_global_variables)

(***************************************************************************)
(* C14: in check_quotient every Periodic node evaluates to the zero of EF, *)
(* whatever the periodic columns, zeta and log_height are, and the verdict *)
(* is the same for every other content of the chip's periodic columns.     *)
(***************************************************************************)
\* the periodic columns of the same lengths filled with v
PeriodicFilled(periodic, v) ==
    [c \in 1 .. Len(periodic) |-> [r \in 1 .. Len(periodic[c]) |-> v]]

WithPeriodic(d, periodic) == [d EXCEPT !.chip.periodic = periodic]

C14_PeriodicIsZero ==
    verdict # NotRun =>
        /\ IsOk(CallEvals) =>
              \A i \in 1 .. Len(data.val.chip.nodes) :
                  data.val.chip.nodes[i].tag = "Periodic"
                      => CallEvals.val[i] = EFZero
        /\ \A v \in F :
              LET periodic == PeriodicFilled(data.val.chip.periodic, v) IN
              periodic # data.val.chip.periodic =>
                  CheckQuotient(WithPeriodic(data.val, periodic),
                                challenge.global_variables, challenge.zeta,
                                challenge.alpha).result = verdict

\* a check that passes on a chip whose only constraint is a Periodic node
\* over a column without a zero
C14_Witness ==
    /\ verdict = Ok(TRUE)
    /\ data.val.chip.nodes = <<Periodic(0)>>
    /\ data.val.chip.periodic = <<<<3, 4>>>>
    /\ data.val.log_height > 0
    /\ challenge.zeta # EFZero

(***************************************************************************)
(* get_dimension on its own: node lists of one or two nodes over Trace     *)
(* nodes of segments 0 and 1 with column and row offsets 0, 1 and          *)
(* usize::MAX, against the width lists of a chip and the empty list of     *)
(* the machine level.                                                      *)
(***************************************************************************)
TraceNodes ==
    {Trace(sg, co, ro, ft) :
        sg \in {0, 1}, co \in Offsets, ro \in Offsets, ft \in FieldTypes}
    \cup {Constant(1)}

TraceWidthLists == {<<>>, <<1>>, <<D>>, <<D, 1>>}

Dimensioned(trace_widths, result) ==
    [trace_widths |-> trace_widths, result |-> result]

InitDimension ==
    /\ overflow_checks \in BOOLEAN
    /\ pc = "dimension"
    /\ \E a \in TraceNodes :
          \/ raw = RawChipMetadata(<<>>, <<>>, <<>>, <<>>, <<a>>, <<>>)
          \/ \E b \in TraceNodes :
                raw = RawChipMetadata(<<>>, <<>>, <<>>, <<>>, <<a, b>>, <<>>)
    /\ info = NotRun
    /\ degrees = NotRun
    /\ zf = NotRun
    /\ zeval = NotRun
    /\ chip = NotRun
    /\ nqe = NotRun
    /\ witness = NotRun
    /\ data = NotRun
    /\ challenge = NotRun
    /\ quotient = NotRun
    /\ verdict = NotRun
    /\ validated = NotRun
    /\ dimension = NotRun
    /\ machine = NotRun
    /\ legacy = NotRun

\* NodesInfo::new_unchecked(nodes).get_dimension(trace_widths)
CallGetDimension ==
    /\ pc = "dimension"
    /\ dimension = NotRun
    /\ \E trace_widths \in TraceWidthLists :
          dimension' = Dimensioned(trace_widths,
                                   GetDimension(raw.nodes, trace_widths))
    /\ UNCHANGED <<overflow_checks, pc, raw, info, degrees, zf, zeval, chip,
                   nqe, witness, data, challenge, quotient, verdict,
                   validated, machine, legacy>>

NextDimension == CallGetDimension

SpecDimension == InitDimension /\ [][NextDimension]_vars

(***************************************************************************)
(* C15: get_dimension(trace_widths) returns Trace(i) for the lowest Trace  *)
(* node whose segment is >= trace_widths.len() or whose element overruns   *)
(* the segment width; otherwise it returns one Dimensions per width, with  *)
(* height 1 + the greatest row_offset of the Trace nodes of the segment,   *)
(* for every row_offset value, and height 0 for a segment without          *)
(* references; with no widths it rejects every list with a Trace node.     *)
(***************************************************************************)
BadTraces(nodes, trace_widths) ==
    {i \in 0 .. (Len(nodes) - 1) :
        LET node == nodes[i + 1] IN
        /\ node.tag = "Trace"
        /\ \/ node.segment >= Len(trace_widths)
           \/ node.col_offset + (IF node.field_type = Base THEN 1 ELSE D)
                 > trace_widths[node.segment + 1]}

Greatest(S) == CHOOSE i \in S : \A j \in S : j <= i

RequiredHeight(nodes, s) ==
    LET rows == {nodes[i].row_offset :
                    i \in {j \in 1 .. Len(nodes) :
                              nodes[j].tag = "Trace" /\ nodes[j].segment = s}}
    IN  IF rows = {} THEN 0 ELSE 1 + Greatest(rows)

C15_TraceDimensions ==
    dimension # NotRun =>
        LET bad == BadTraces(raw.nodes, dimension.trace_widths) IN
        /\ dimension.result =
              IF bad # {} THEN Err(TraceErr(Least(bad)))
              ELSE Ok([s \in 1 .. Len(dimension.trace_widths) |->
                          Dimensions(dimension.trace_widths[s],
                                     RequiredHeight(raw.nodes, s - 1))])
        /\ (/\ dimension.trace_widths = <<>>
            /\ \E i \in 1 .. Len(raw.nodes) : raw.nodes[i].tag = "Trace")
              => IsErr(dimension.result)

(***************************************************************************)
(* Raw chips that violate several passes of the chip build at once: node   *)
(* lists of up to three nodes over a pool with an offender of each node    *)
(* pass, three lists of periodic columns and six constraint lists.         *)
(***************************************************************************)
PassNodes ==
    {Constant(1), Add(0, 0),
     Var(Local(0), 0, 0, Base), Var(Local(1), 0, 0, Base),
     Var(Local(0), 0, USIZE_MAX, Base),
     Trace(0, 0, 0, Base), Trace(1, 0, 0, Base),
     Trace(0, 0, USIZE_MAX, Base),
     Periodic(0), Periodic(1)}

PassNodeLists ==
    {<<a>> : a \in PassNodes} \cup {<<a, b>> : a, b \in PassNodes}
        \cup {<<a, b, c>> : a, b, c \in PassNodes}

PassPeriodic == {<<>>, <<<<1>>>>, <<<<1, 2, 3>>>>}

PassConstraints ==
    {<<>>, <<Expression(0, Some(0))>>, <<Expression(0, Some(1))>>,
     <<Expression(0, None)>>,
     <<Expression(0, Some(0)), Expression(3, Some(0))>>,
     <<Expression(3, Some(0)), Expression(4, Some(0))>>}

PassChips ==
    {RawChipMetadata(<<1>>, <<1>>, <<ZX(First(1))>>, pe, ns, cs) :
        pe \in PassPeriodic, ns \in PassNodeLists, cs \in PassConstraints}

InitPasses == InitChip(PassChips)

NextPasses == CallTryFrom

SpecPasses == InitPasses /\ [][NextPasses]_vars

(***************************************************************************)
(* C16: the chip build returns the error of the earliest violated pass in  *)
(* the order topological, local variables, trace dimensions, periodic      *)
(* references, periodic lengths, constraints, with the lowest offending    *)
(* index of that pass, and builds a ChipMetadata only when no pass is      *)
(* violated.                                                               *)
(***************************************************************************)
BadPeriodicRefs(value) ==
    {i \in 0 .. (Len(value.nodes) - 1) :
        /\ value.nodes[i + 1].tag = "Periodic"
        /\ value.nodes[i + 1].column >= Len(value.periodic)}

BadPeriodicLens(value) ==
    {c \in 0 .. (Len(value.periodic) - 1) :
        \A k \in 0 .. Len(value.periodic[c + 1]) :
            Len(value.periodic[c + 1]) # 2 ^ k}

\* the error of the earliest violated pass, None when no pass is violated
FirstViolation(value) ==
    LET topological == ForwardRefs(value.nodes)
        variables == BadVariables(value.nodes, "validate_local_variables",
                                  <<value.num_local_variables>>)
        traces == BadTraces(value.nodes, value.trace_widths)
        periodic_refs == BadPeriodicRefs(value)
        periodic_lens == BadPeriodicLens(value)
        constraints == BadConstraints(value)
    IN  IF topological # {}
        THEN Some(NodeError(InvalidReference(Least(topological))))
        ELSE IF variables # {}
        THEN Some(NodeError(VariableErr(Least(variables))))
        ELSE IF traces # {}
        THEN Some(NodeError(TraceErr(Least(traces))))
        ELSE IF periodic_refs # {}
        THEN Some(NodeError(PeriodicErr(Least(periodic_refs))))
        ELSE IF periodic_lens # {}
        THEN Some(PeriodicLenErr(Least(periodic_lens)))
        ELSE IF constraints # {}
        THEN Some(ConstraintErr(Least(constraints)))
        ELSE None

C16_BuildFailsFast ==
    chip # NotRun =>
        LET first == FirstViolation(raw) IN
        IF first = None THEN IsOk(chip) ELSE chip = Err(first.v)

(***************************************************************************)
(* C17: the evaluation of X(exp) at x over a domain of n raises x to       *)
(* exp.power(n): i for First(i), n - i for Last(i), n / i for Rate(i).     *)
(* For Last(i) with i > n it fails or saturates (exponent 0); for Rate(0)  *)
(* it fails; for Rate(i) with i not dividing n it fails or uses an         *)
(* exponent within 0 .. n; it never raises x to n - i modulo the word      *)
(* size.                                                                   *)
(***************************************************************************)
\* x multiplied k times
RECURSIVE EFPower(_, _)
EFPower(x, k) == IF k = 0 THEN EFOne ELSE EFMul(x, EFPower(x, k - 1))

EvalFails(r) == IsPanic(r) \/ r = Ok(None)

C17_ExponentPower ==
    (zeval # NotRun /\ zf.expr.tag = "X") =>
        LET exp == zf.expr.exp
            i == zf.expr.exp.i
            n == zf.n
            x == zf.x
        IN  CASE exp.kind = "First" -> zeval = Ok(Some(EFPower(x, i)))
              [] exp.kind = "Last" /\ i <= n ->
                    zeval = Ok(Some(EFPower(x, n - i)))
              [] exp.kind = "Last" /\ i > n ->
                    EvalFails(zeval) \/ zeval = Ok(Some(EFPower(x, 0)))
              [] exp.kind = "Rate" /\ i = 0 -> EvalFails(zeval)
              [] exp.kind = "Rate" /\ i > 0 /\ n % i = 0 ->
                    zeval = Ok(Some(EFPower(x, n \div i)))
              [] exp.kind = "Rate" /\ i > 0 /\ n % i # 0 ->
                    \/ EvalFails(zeval)
                    \/ \E k \in 0 .. n : zeval = Ok(Some(EFPower(x, k)))

(***************************************************************************)
(* The ChipData::new of constraint.rs, which returns Result<Self, ()>.     *)
(***************************************************************************)
UnitError == [kind |-> "()"]

\* a Result<_, DataError> of a shared loop as a Result<_, ()>
AsUnitError(r) == IF IsErr(r) THEN Err(UnitError) ELSE r

LegacyChipDataNew(c, local_variables, trace_evals, quotient_evals, log_height) ==
    LET local_lens == AsUnitError(
            LocalLenLoop(local_variables, c.num_local_variables, 0)) IN
    IF ~IsOk(local_lens) THEN local_lens ELSE
    IF Len(c.trace_window_dimensions) # Len(trace_evals)
    THEN Err(UnitError) ELSE
    LET segments == AsUnitError(
            SegmentLoop(trace_evals, c.trace_window_dimensions, 0)) IN
    IF ~IsOk(segments) THEN segments ELSE
    LET num_quotient_evals == ExpectedQuotientEvals(c) IN
    IF IsPanic(num_quotient_evals) THEN num_quotient_evals ELSE
    IF Len(quotient_evals) # num_quotient_evals.val THEN Err(UnitError)
    ELSE Ok(ChipData(c, local_variables, trace_evals, quotient_evals,
                     log_height))

\* the ChipData::new of constraint.rs on the arguments given to chip.rs's
CallLegacyChipDataNew ==
    /\ IsOk(chip)
    /\ data # NotRun
    /\ legacy = NotRun
    /\ legacy' = LegacyChipDataNew(chip.val, witness.local_variables,
                                   witness.trace_evals, witness.quotient_evals,
                                   witness.log_height)
    /\ UNCHANGED <<overflow_checks, pc, raw, info, degrees, zf, zeval, chip,
                   nqe, witness, data, challenge, quotient, verdict,
                   validated, dimension, machine>>

NextLegacy ==
    \/ CallTryFrom
    \/ CallChipDataNewAnyShape
    \/ CallLegacyChipDataNew

SpecLegacy == InitShape /\ [][NextLegacy]_vars

(***************************************************************************)
(* C18: on the same validated chip and the same local_variables,           *)
(* trace_evals, quotient_evals and log_height, the ChipData::new of        *)
(* constraint.rs returns Ok exactly when the one of chip.rs does, and both *)
(* reject local_variables whose number of groups differs from              *)
(* chip.num_local_variables.len().                                         *)
(***************************************************************************)
C18_BothNewAgree ==
    legacy # NotRun =>
        /\ IsOk(legacy) <=> IsOk(data)
        /\ Len(witness.local_variables) # Len(chip.val.num_local_variables)
              => (~IsOk(legacy) /\ ~IsOk(data))

====
